---- MODULE Spec2Model ----
(***************************************************************************)
(* Streaming completion pipeline of the chat front end.                    *)
(*                                                                         *)
(*   chatWithOpenRouterStream  (services/openrouter.ts)  the SSE decoder   *)
(*   Chat component            (components/Chat.tsx)     handleSend,       *)
(*       handleRerun, handleStop, handleDeleteMessage[AndBelow] and the    *)
(*       onChunk / onComplete / onError callbacks of executeCompletion     *)
(*   trackModelUsage           (services/storage.ts)                       *)
(*   executeCompletion         (components/Chat.tsx)     the assembly of   *)
(*       the outgoing messages: system prompt, memories, document          *)
(*       excerpts, history window, new user message                        *)
(*   MemoryPanel               (components/MemoryPanel.tsx)  the panel's   *)
(*       copy of the stored memories and its effects                       *)
(*                                                                         *)
(* Text is modelled as a sequence of atoms.  On the wire an atom is a      *)
(* record standing for a run of characters that the decoder never looks    *)
(* inside: the newline, the "data: " prefix, the "[DONE]" payload, the     *)
(* opening brace of a JSON text, the remainder of a JSON text, a colon, a  *)
(* blank and any other character.  A read boundary may fall between any    *)
(* two atoms.  The content of a message is a sequence of integers: a       *)
(* positive integer is a content delta, a negative one an error text.      *)
(*                                                                         *)
(* JavaScript runs one task at a time: a handler, or the code that follows *)
(* the settling of a network promise together with all the promise         *)
(* continuations it triggers, is one action.                               *)
(***************************************************************************)
EXTENDS Integers, Sequences, FiniteSets, TLC

\* ------------------------------------------------------------------ bounds
MaxStreams == 2      \* turns (send or rerun) started in one behaviour
MaxLines == 4        \* lines of a response body in the decoder specification
MaxRead == 3         \* atoms delivered by one read in the decoder specification
MaxDeletes == 1      \* messages the user deletes in one behaviour
MaxHistory == 11     \* messages of the conversation when the chat is mounted
MaxWindow == 3       \* largest max_messages the user sets
MaxEdits == 2        \* memories added, edited or deleted in one behaviour
MaxCalls == 3        \* calls of trackModelUsage in the usage specification
MaxChunks == 4       \* stored chunks handed to one retrieval
MaxText == 5         \* characters of a text that is chunked
MaxPieces == 6       \* iterations of the loop of chunkText that are followed
MaxEmbedText == 3    \* characters of a text that is embedded
MaxUploads == 2      \* files uploaded in one behaviour
MaxConversations == 2  \* conversations

\* --------------------------------------------------------------- constants
TopK == 5                 \* retrieveRelevantChunks(userContent, selectedDocs, 5)
DefaultMaxMessages == 10  \* llmSettings.max_messages ?? 10

\* ------------------------------------------------------------- wire atoms
Atom(t) == [t |-> t, ch |-> "one", d |-> 0, u |-> 0]
NL == Atom("nl")
DATA == Atom("data")
DONE == Atom("done")
OPEN == Atom("open")
COLON == Atom("colon")
SP == Atom("sp")
\* the remainder of a JSON text: ch says whether "choices" is absent, empty or
\* has one element; d is the content delta (0: none), u the usage (0: none)
Json(ch, d, u) == [t |-> "json", ch |-> ch, d |-> d, u |-> u]

\* usage object number k as the three counters the provider reports
UsageOf(k) == [prompt_tokens |-> k, completion_tokens |-> 1, total_tokens |-> k + 1]
ZeroUsage == [prompt_tokens |-> 0, completion_tokens |-> 0, total_tokens |-> 0]

\* ------------------------------------------------------------ text helpers
RECURSIVE SplitNL(_)
\* String.prototype.split('\n'): always at least one element
SplitNL(s) ==
  IF \A i \in 1..Len(s) : s[i] # NL THEN <<s>>
  ELSE LET k == CHOOSE i \in 1..Len(s) : s[i] = NL /\ \A j \in 1..(i - 1) : s[j] # NL
       IN <<SubSeq(s, 1, k - 1)>> \o SplitNL(SubSeq(s, k + 1, Len(s)))

RECURSIVE Trim(_)
\* String.prototype.trim()
Trim(s) ==
  IF s = <<>> THEN s
  ELSE IF Head(s) = SP THEN Trim(Tail(s))
  ELSE IF s[Len(s)] = SP THEN Trim(SubSeq(s, 1, Len(s) - 1))
  ELSE s

StartsWith(s, a) == Len(s) > 0 /\ s[1] = a

\* JSON.parse(data) does not throw
Parses(data) == LET p == Trim(data) IN Len(p) = 2 /\ p[1] = OPEN /\ p[2].t = "json"
Parsed(data) == Trim(data)[2]

\* DecodeLine with a parse failure ending the stream instead of being skipped
DecodeLine_ParseEnds(st, line) ==
  IF st.seenDone THEN st
  ELSE IF Trim(line) = <<>> THEN st
  ELSE IF StartsWith(line, COLON) THEN st
  ELSE IF ~StartsWith(line, DATA) THEN st
  ELSE LET data == Tail(line) IN
    IF data = <<DONE>> THEN [st EXCEPT !.seenDone = TRUE]
    ELSE IF ~Parses(data) THEN [st EXCEPT !.seenDone = TRUE]
    ELSE LET chunk == Parsed(data) IN
      IF chunk.ch = "absent" THEN st
      ELSE LET st1 == IF chunk.ch = "one" /\ chunk.d # 0
                      THEN [st EXCEPT !.chunks = Append(@, chunk.d)] ELSE st
           IN IF chunk.u # 0
              THEN [st1 EXCEPT !.finalUsage = chunk.u, !.captured = Append(@, chunk.u)]
              ELSE st1

\* DecodeLine keeping the first usage seen instead of the latest
DecodeLine_FirstUsage(st, line) ==
  IF st.seenDone THEN st
  ELSE IF Trim(line) = <<>> THEN st
  ELSE IF StartsWith(line, COLON) THEN st
  ELSE IF ~StartsWith(line, DATA) THEN st
  ELSE LET data == Tail(line) IN
    IF data = <<DONE>> THEN [st EXCEPT !.seenDone = TRUE]
    ELSE IF ~Parses(data) THEN st
    ELSE LET chunk == Parsed(data) IN
      IF chunk.ch = "absent" THEN st
      ELSE LET st1 == IF chunk.ch = "one" /\ chunk.d # 0
                      THEN [st EXCEPT !.chunks = Append(@, chunk.d)] ELSE st
           IN IF chunk.u # 0 /\ st.finalUsage = 0
              THEN [st1 EXCEPT !.finalUsage = chunk.u, !.captured = Append(@, chunk.u)]
              ELSE st1

\* decoder state threaded through the for loop over the lines of one read:
\* chunks are the onChunk arguments in call order, captured the values assigned
\* to finalUsage in order
DecodeLine(st, line) ==
  IF st.seenDone THEN st
  ELSE IF Trim(line) = <<>> THEN st
  ELSE IF StartsWith(line, COLON) THEN st
  ELSE IF ~StartsWith(line, DATA) THEN st
  ELSE LET data == Tail(line) IN
    IF data = <<DONE>> THEN [st EXCEPT !.seenDone = TRUE]
    ELSE IF ~Parses(data) THEN st
    ELSE LET chunk == Parsed(data) IN
      IF chunk.ch = "absent" THEN st
      ELSE LET st1 == IF chunk.ch = "one" /\ chunk.d # 0
                      THEN [st EXCEPT !.chunks = Append(@, chunk.d)] ELSE st
           IN IF chunk.u # 0
              THEN [st1 EXCEPT !.finalUsage = chunk.u, !.captured = Append(@, chunk.u)]
              ELSE st1

RECURSIVE DecodeLines(_, _)
DecodeLines(st, lines) ==
  IF lines = <<>> THEN st ELSE DecodeLines(DecodeLine(st, Head(lines)), Tail(lines))

\* "Handle any remaining buffer": only the usage of a trailing data line is used
DecodeRest(st, buf) ==
  IF Trim(buf) # <<>> /\ StartsWith(buf, DATA)
  THEN LET data == Tail(buf) IN
       IF data # <<DONE>> /\ Parses(data) /\ Parsed(data).u # 0
       THEN [st EXCEPT !.finalUsage = Parsed(data).u, !.captured = Append(@, Parsed(data).u)]
       ELSE st
  ELSE st

\* value handed to onComplete
CompleteUsage(fu) == IF fu # 0 THEN UsageOf(fu) ELSE ZeroUsage

\* ------------------------------------------------------------------ state
VARIABLES
  messages,            \* the message log of the conversation (App state)
  isLoading,           \* Chat state
  streamingMessageId,  \* Chat state, 0 is null
  comparingMessages,   \* Chat state, <<0, 0>> is null
  abortControllerRef,  \* the stream whose AbortController the ref holds, 0 is null
  streamContentRef,    \* [set, content, messageId], set = FALSE is null
  modelUsage,          \* the stored usage table, an array of records
  currentSessionTokens,
  nextId,              \* source of message ids (Date.now())
  nStreams,            \* turns started so far
  nDeletes,            \* delete actions taken so far
  turn,                \* per turn: what the closures of executeCompletion captured
  pc,                  \* per turn: where its asynchronous call chain is suspended
  wire,                \* per stream: atoms of the response body not yet read
  buffer,              \* per stream: the decoder's carry-over buffer
  finalUsage,          \* per stream: latest usage seen, 0 is null
  aborted,             \* per stream: signal.aborted of its AbortController
  released,            \* per stream: number of reader.releaseLock() calls
  events,              \* per stream: the callbacks the client invoked, in order
  frames,              \* per stream: the lines the provider sends
  term,                \* per stream: the last line ends with a newline
  captured,            \* per stream: the values assigned to finalUsage, in order
  outcome,             \* per turn: the terminal outcomes shown to the user, in order
  stopSnap,            \* per turn: <<content of its placeholder>> when Stop was pressed
  apiKey,              \* an API key is stored
  systemPrompt,        \* the stored system prompt, a text
  llmSettings,         \* the stored sampling settings, a record that may lack max_messages
  selectedDocuments,   \* App state: the selected file names
  documents,           \* the stored document chunks, an array
  memories,            \* the stored memories, an array
  selectedMemories,    \* App state: the selected memory ids
  showMemoryPanel,     \* App state: the memory panel is mounted
  panelMemories,       \* MemoryPanel state: its copy of the memories, <<>> when unmounted
  nEdits,              \* memories added, edited or deleted so far
  savedAfterUse,       \* the panel has saved its copy after a send used a memory
  uses,                \* per memory id: sends issued while it was selected
  request,             \* per turn: allMessages, the messages of the outgoing request
  rag,                 \* per turn: whether retrieval ran and the chunks it returned
  readers,             \* per stream: number of response.body.getReader() calls
  response,            \* per stream: how fetch() settled
  libCalls,            \* calls of the function under study, in order
  libResult,           \* what its last call returned
  activeConversationId,  \* App state, 0 is null
  conversationMessages   \* the stored messages of each conversation

uiVars == <<messages, conversationMessages, isLoading, streamingMessageId, comparingMessages,
            abortControllerRef, streamContentRef, modelUsage, currentSessionTokens, nextId>>
streamVars == <<wire, buffer, finalUsage, released, events, frames, term, captured>>
cfgVars == <<apiKey, systemPrompt, llmSettings, selectedDocuments, documents,
             activeConversationId>>
memVars == <<memories, selectedMemories, showMemoryPanel, panelMemories, nEdits, savedAfterUse,
            uses>>
reqVars == <<request, rag>>
netVars == <<readers, response>>
libVars == <<libCalls, libResult>>
vars == <<uiVars, nStreams, nDeletes, turn, pc, aborted, streamVars, outcome, stopSnap,
          cfgVars, libVars, memVars, reqVars, netVars>>

Streams == 1..MaxStreams
Models == {"m1", "m2"}
model == "m1"                    \* the model selected in the settings
Inputs == {1}                    \* texts the user types
Delta(s, i) == 100 * s + i       \* content delta of line i of stream s

\* error texts shown in a message (negative), by cause
ErrApi == -1                     \* "OpenRouter API error: <body>"
ErrRead == -2                    \* reader.read() rejected
ErrFetch == -3                   \* fetch() rejected
ErrKey == -4                     \* "API key not set. Please configure it in settings."
ErrRetrieval == -5               \* the TypeError thrown inside retrieveRelevantChunks
ErrorText(cause) == <<cause>>    \* `Error: ${err.message}`

NullRef == [set |-> FALSE, content |-> <<>>, messageId |-> 0]
NoRag == [ran |-> FALSE, chunks |-> <<>>]
NoSettings == [x \in {} |-> 0]     \* settings without max_messages
MemIds == 1..(2 + MaxEdits)       \* ids of the memories
NoTurn == [assistantMessageId |-> 0, isRerun |-> FALSE, model |-> model, oldAssistantId |-> 0,
           conversationId |-> 0]

Message(id, role, content) == [id |-> id, role |-> role, content |-> content]
HasMessage(msgs, id) == \E i \in 1..Len(msgs) : msgs[i].id = id
IndexOf(msgs, id) == CHOOSE i \in 1..Len(msgs) : msgs[i].id = id /\ \A j \in 1..(i - 1) : msgs[j].id # id
ContentOf(msgs, id) == msgs[IndexOf(msgs, id)].content

\* prev.map((msg) => (msg.id === id ? { ...msg, content } : msg))
SetContent(msgs, id, content) ==
  [i \in 1..Len(msgs) |-> IF msgs[i].id = id THEN [msgs[i] EXCEPT !.content = content] ELSE msgs[i]]

\* prev.filter((m) => m.id !== id)
RECURSIVE RemoveMessage(_, _)
RemoveMessage(msgs, id) ==
  IF msgs = <<>> THEN <<>>
  ELSE IF Head(msgs).id = id THEN RemoveMessage(Tail(msgs), id)
  ELSE <<Head(msgs)>> \o RemoveMessage(Tail(msgs), id)

\* ------------------------------------------------------------ conversations
\* saveMessagesForConversation(id, messages) and loadMessagesForConversation(id)
\* of services/storage: the key-value store of the messages by conversation
SaveMessagesForConversation(store, id, msgs) == [store EXCEPT ![id] = msgs]
LoadMessagesForConversation(store, id) == store[id]

\* handleMessagesChange as created by the render in which conversationId was the
\* active conversation: setMessages(prev => ...) whose updater saves the updated
\* list under that id; updated is next(prev)
OnMessagesChange(conversationId, updated) ==
  /\ messages' = updated
  /\ conversationMessages' =
       IF conversationId # 0
       THEN SaveMessagesForConversation(conversationMessages, conversationId, updated)
       ELSE conversationMessages

\* handleSelectConversation, with the effects that follow the render: App
\* loads the stored list of the conversation, Chat resets its session totals
HandleSelectConversation(id) ==
  /\ id # activeConversationId
  /\ activeConversationId' = id
  /\ messages' = LoadMessagesForConversation(conversationMessages, id)
  /\ currentSessionTokens' = 0
  /\ UNCHANGED <<conversationMessages, isLoading, streamingMessageId, comparingMessages,
                 abortControllerRef, streamContentRef, modelUsage, nextId, nStreams,
                 nDeletes, turn, pc, aborted, streamVars, outcome, stopSnap, apiKey,
                 systemPrompt, llmSettings, selectedDocuments, documents, libVars,
                 memVars, reqVars, netVars>>

\* --------------------------------------------------- executeCompletion callbacks
\* onChunk: o is [ref, msgs]
OnChunk(o, c) ==
  IF o.ref.set
  THEN LET content == Append(o.ref.content, c)
       IN [ref |-> [o.ref EXCEPT !.content = content],
           msgs |-> SetContent(o.msgs, o.ref.messageId, content)]
  ELSE o

RECURSIVE ApplyChunks(_, _)
ApplyChunks(o, cs) == IF cs = <<>> THEN o ELSE ApplyChunks(OnChunk(o, Head(cs)), Tail(cs))

\* the conversation of the closure updateFn that streamContentRef holds: the
\* one that was active when the turn of its message was started
ConversationOfRef ==
  turn[CHOOSE s \in Streams :
         turn[s].assistantMessageId = streamContentRef.messageId].conversationId

\* the onChunk calls of one read as seen by App: with a content ref and a delta
\* updateFn has run and o.msgs is what its updaters returned
OnChunks(o, chunks) ==
  IF streamContentRef.set /\ chunks # <<>>
  THEN OnMessagesChange(ConversationOfRef, o.msgs)
  ELSE UNCHANGED <<messages, conversationMessages>>

\* trackModelUsage(modelId, tokens, promptTokens, completionTokens)
TrackModelUsage(usageData, modelId, usage) ==
  IF \E i \in 1..Len(usageData) : usageData[i].modelId = modelId
  THEN LET k == CHOOSE i \in 1..Len(usageData) :
                  usageData[i].modelId = modelId /\ \A j \in 1..(i - 1) : usageData[j].modelId # modelId
       IN [usageData EXCEPT ![k] = [@ EXCEPT
             !.requestCount = @ + 1,
             !.totalTokens = @ + usage.total_tokens,
             !.totalPromptTokens = @ + usage.prompt_tokens,
             !.totalCompletionTokens = @ + usage.completion_tokens]]
  ELSE Append(usageData, [modelId |-> modelId, requestCount |-> 1,
                          totalTokens |-> usage.total_tokens,
                          totalPromptTokens |-> usage.prompt_tokens,
                          totalCompletionTokens |-> usage.completion_tokens])

\* ---- trackModelUsage with all its parameters (storage.ts)
Undefined == -1                  \* an optional number that was not passed
NoPricing == <<>>                \* pricing not passed, or a record without pricing
Pricing(prompt, completion) == <<[prompt |-> prompt, completion |-> completion]>>
OrZero(n) == IF n = Undefined THEN 0 ELSE n        \* n || 0

\* a pricing that is stored whether or not one was passed
StoredPricing_AlwaysOverwrites(existing, pricing) == pricing

\* if (pricing) existing.pricing = pricing
StoredPricing(existing, pricing) == IF pricing # NoPricing THEN pricing ELSE existing

\* a call that replaces the totals of the record instead of adding to them
TrackModelUsageWith_Replaces(usageData, modelId, tokens, promptTokens, completionTokens, pricing) ==
  IF \E i \in 1..Len(usageData) : usageData[i].modelId = modelId
  THEN LET k == CHOOSE i \in 1..Len(usageData) : usageData[i].modelId = modelId
       IN [usageData EXCEPT ![k] =
             [modelId |-> modelId, requestCount |-> 1, totalTokens |-> tokens,
              totalPromptTokens |-> OrZero(promptTokens),
              totalCompletionTokens |-> OrZero(completionTokens),
              pricing |-> StoredPricing(usageData[k].pricing, pricing)]]
  ELSE Append(usageData, [modelId |-> modelId, requestCount |-> 1, totalTokens |-> tokens,
                          totalPromptTokens |-> OrZero(promptTokens),
                          totalCompletionTokens |-> OrZero(completionTokens),
                          pricing |-> pricing])

\* trackModelUsage(modelId, tokens, promptTokens?, completionTokens?, pricing?)
\* on the table loadModelUsage() returned; the result is what it stores
TrackModelUsageWith(usageData, modelId, tokens, promptTokens, completionTokens, pricing) ==
  IF \E i \in 1..Len(usageData) : usageData[i].modelId = modelId
  THEN LET k == CHOOSE i \in 1..Len(usageData) :
                  usageData[i].modelId = modelId /\ \A j \in 1..(i - 1) : usageData[j].modelId # modelId
       IN [usageData EXCEPT ![k] = [@ EXCEPT
             !.requestCount = @ + 1,
             !.totalTokens = @ + tokens,
             !.totalPromptTokens = IF promptTokens # Undefined THEN @ + promptTokens ELSE @,
             !.totalCompletionTokens = IF completionTokens # Undefined THEN @ + completionTokens ELSE @,
             !.pricing = StoredPricing(@, pricing)]]
  ELSE Append(usageData, [modelId |-> modelId, requestCount |-> 1, totalTokens |-> tokens,
                          totalPromptTokens |-> OrZero(promptTokens),
                          totalCompletionTokens |-> OrZero(completionTokens),
                          pricing |-> pricing])

\* one call of trackModelUsage
CallTrackModelUsage(modelId, tokens, promptTokens, completionTokens, pricing) ==
  /\ Len(libCalls) < MaxCalls
  /\ modelUsage' = TrackModelUsageWith(modelUsage, modelId, tokens, promptTokens,
                                       completionTokens, pricing)
  /\ libCalls' = Append(libCalls, [modelId |-> modelId, tokens |-> tokens,
                                   promptTokens |-> promptTokens,
                                   completionTokens |-> completionTokens, pricing |-> pricing])
  /\ libResult' = <<>>
  /\ UNCHANGED <<messages, conversationMessages, isLoading, streamingMessageId, comparingMessages, abortControllerRef,
                 streamContentRef, currentSessionTokens, nextId, nStreams, nDeletes, turn, pc,
                 aborted, streamVars, outcome, stopSnap, cfgVars, memVars, reqVars, netVars>>
\* ---- cost of the stored usage (Chat).  Rates are per million tokens; a cost is
\* counted in units of 1/2000000, in which the halved sum of two rates is exact.
\* calculateCost with modelPricing given before pricing
CalculateCost_CurrentModelFirst(promptTokens, completionTokens, pricing, modelPricing) ==
  LET pricingToUse == IF modelPricing # NoPricing THEN modelPricing ELSE pricing
  IN IF pricingToUse = NoPricing THEN 0
     ELSE 2 * (promptTokens * pricingToUse[1].prompt
               + completionTokens * pricingToUse[1].completion)

\* calculateCost(promptTokens, completionTokens, pricing?) under the state modelPricing
CalculateCost(promptTokens, completionTokens, pricing, modelPricing) ==
  LET pricingToUse == IF pricing # NoPricing THEN pricing ELSE modelPricing
  IN IF pricingToUse = NoPricing THEN 0
     ELSE 2 * (promptTokens * pricingToUse[1].prompt
               + completionTokens * pricingToUse[1].completion)

\* the body of usage.forEach in overallStats: what record u adds to totalCost
CostOfRecord(u, modelPricing) ==
  IF u.pricing # NoPricing
  THEN IF u.totalPromptTokens > 0 \/ u.totalCompletionTokens > 0
       THEN CalculateCost(u.totalPromptTokens, u.totalCompletionTokens, u.pricing, modelPricing)
       ELSE u.totalTokens * (u.pricing[1].prompt + u.pricing[1].completion)
  ELSE 0

RECURSIVE OverallStats(_, _)
\* overallStats over the table loadModelUsage() returned
OverallStats(usage, modelPricing) ==
  IF usage = <<>> THEN [totalTokens |-> 0, totalCost |-> 0]
  ELSE LET rest == OverallStats(SubSeq(usage, 1, Len(usage) - 1), modelPricing)
           u == usage[Len(usage)]
       IN [totalTokens |-> rest.totalTokens + u.totalTokens,
           totalCost |-> rest.totalCost + CostOfRecord(u, modelPricing)]

\* the memo overallStats is computed while modelPricing is the pricing of the
\* selected model
ComputeOverallStats(modelPricing) ==
  /\ libCalls = <<>>
  /\ libCalls' = <<[modelPricing |-> modelPricing]>>
  /\ libResult' = OverallStats(modelUsage, modelPricing)
  /\ UNCHANGED <<uiVars, nStreams, nDeletes, turn, pc, aborted, streamVars, outcome, stopSnap,
                 cfgVars, memVars, reqVars, netVars>>
ChunkEvents(cs) == [i \in 1..Len(cs) |-> [e |-> "chunk", v |-> cs[i], usage |-> ZeroUsage]]
CompleteEvent(usage) == [e |-> "complete", v |-> 0, usage |-> usage]
ErrorEvent(cause) == [e |-> "error", v |-> cause, usage |-> ZeroUsage]

\* a catch block that only rewrites the placeholder
CatchError_MapOnly(msgs, aid, newId, cause) == SetContent(msgs, aid, ErrorText(cause))
\* `Error: ...` written by the catch block of handleSend / handleRerun
CatchError(msgs, aid, newId, cause) ==
  IF HasMessage(msgs, aid) THEN SetContent(msgs, aid, ErrorText(cause))
  ELSE Append(msgs, Message(newId, "assistant", ErrorText(cause)))

\* --------------------------------------------------------- response bodies
FrameKinds == {"content", "usage", "done", "bad", "comment", "blank"}

\* text of line i of stream s, without its newline
LineText(kind, s, i) ==
  CASE kind = "content" -> <<DATA, OPEN, Json("one", Delta(s, i), 0)>>
    [] kind = "usage"   -> <<DATA, OPEN, Json("one", 0, i)>>
    [] kind = "usageEmptyChoices" -> <<DATA, OPEN, Json("empty", 0, i)>>
    [] kind = "usageNoChoices"    -> <<DATA, OPEN, Json("absent", 0, i)>>
    [] kind = "done"    -> <<DATA, DONE>>
    [] kind = "bad"     -> <<DATA, OPEN>>
    [] kind = "comment" -> <<COLON, SP>>
    [] OTHER            -> <<>>

RECURSIVE WireFrom(_, _, _, _)
\* lines i.. of the body, each but the last followed by a newline, the last one
\* followed by a newline when tm
WireFrom(ks, s, i, tm) ==
  IF i > Len(ks) THEN <<>>
  ELSE LineText(ks[i], s, i) \o (IF i < Len(ks) \/ tm THEN <<NL>> ELSE <<>>)
       \o WireFrom(ks, s, i + 1, tm)

WireOf(ks, s, tm) == WireFrom(ks, s, 1, tm)

\* bodies of the decoder specification, and of the chat specification
FrameSeqs == UNION {[1..n -> FrameKinds] : n \in 0..MaxLines}
ChatFrameSeqs == {<<"content", "content", "usage", "done">>, <<"content">>}

\* ---------------------------------------------------------------- memories
\* A text is a sequence of integers; 0 is a blank.
Memory(id, title, useCount) == [id |-> id, title |-> title, content |-> 10 * id, useCount |-> useCount]
HasMemory(mems, id) == \E i \in 1..Len(mems) : mems[i].id = id
MemoryOf(mems, id) == mems[CHOOSE i \in 1..Len(mems) : mems[i].id = id]

RECURSIVE FilterMemories(_, _)
\* memories.filter(m => selectedMemories.includes(m.id))
FilterMemories(mems, ids) ==
  IF mems = <<>> THEN <<>>
  ELSE (IF Head(mems).id \in ids THEN <<Head(mems)>> ELSE <<>>)
       \o FilterMemories(Tail(mems), ids)

\* incrementMemoryUseCount(ids): the stored memories with useCount raised by one
\* for every memory whose id is in ids
IncrementMemoryUseCount(mems, ids) ==
  [i \in 1..Len(mems) |->
     IF mems[i].id \in ids THEN [mems[i] EXCEPT !.useCount = @ + 1] ELSE mems[i]]

\* the effect on memoryUsageVersion with the panel holding panel: setMemories(loadMemories())
PanelReload_Stale(panel, stored) == panel

PanelReload(panel, stored) == stored

\* --------------------------------------------------------------- memory panel
\* everything but the memories, their selection and the panel
chatVars == <<uiVars, nStreams, nDeletes, turn, pc, aborted, streamVars, outcome, stopSnap,
              cfgVars, libVars, uses, reqVars, netVars>>

\* the save effect of the panel after one of its handlers changed its copy
PanelSaves(copy) ==
  /\ panelMemories' = copy
  /\ memories' = copy
  /\ nEdits' = nEdits + 1
  /\ savedAfterUse' = (savedAfterUse \/ \E i \in 1..Len(memories) : memories[i].useCount > 0)

\* the Memories button of the header: the panel is mounted with the stored
\* memories, or unmounted
ToggleMemoryPanel ==
  /\ showMemoryPanel' = ~showMemoryPanel
  /\ panelMemories' = IF showMemoryPanel THEN <<>> ELSE memories
  /\ UNCHANGED <<chatVars, memories, selectedMemories, nEdits, savedAfterUse>>

PanelHandleAdd ==
  /\ showMemoryPanel
  /\ nEdits < MaxEdits
  /\ PanelSaves(Append(panelMemories, Memory(2 + nEdits, 10 * (2 + nEdits) + 1, 0)))
  /\ UNCHANGED <<chatVars, selectedMemories, showMemoryPanel>>

PanelSaveEdit(editingId) ==
  /\ showMemoryPanel
  /\ nEdits < MaxEdits
  /\ HasMemory(panelMemories, editingId)
  /\ PanelSaves([i \in 1..Len(panelMemories) |->
                   IF panelMemories[i].id = editingId
                   THEN [panelMemories[i] EXCEPT !.title = @ + 1]
                   ELSE panelMemories[i]])
  /\ UNCHANGED <<chatVars, selectedMemories, showMemoryPanel>>

PanelHandleDelete(id) ==
  /\ showMemoryPanel
  /\ nEdits < MaxEdits
  /\ HasMemory(panelMemories, id)
  /\ PanelSaves(FilterMemories(panelMemories, MemIds \ {id}))
  /\ selectedMemories' = selectedMemories \ {id}
  /\ UNCHANGED <<chatVars, showMemoryPanel>>

ToggleSelection(id) ==
  /\ showMemoryPanel
  /\ HasMemory(panelMemories, id)
  /\ selectedMemories' = IF id \in selectedMemories THEN selectedMemories \ {id}
                         ELSE selectedMemories \cup {id}
  /\ UNCHANGED <<chatVars, memories, showMemoryPanel, panelMemories, nEdits, savedAfterUse>>

\* ------------------------------------------------------------------ retrieval
\* A stored chunk; sim stands for the cosine similarity of its embedding to the
\* embedding of the query.
DocumentChunk(id, fileName, sim) == [id |-> id, fileName |-> fileName, sim |-> sim]

\* retrieval against the full corpus
FilterChunks_All(docs, names) == docs

RECURSIVE FilterChunks(_, _)
\* allDocuments.filter(d => selectedDocuments.includes(d.metadata.fileName))
FilterChunks(docs, names) ==
  IF docs = <<>> THEN <<>>
  ELSE (IF Head(docs).fileName \in names THEN <<Head(docs)>> ELSE <<>>)
       \o FilterChunks(Tail(docs), names)

RECURSIVE InsertBySim(_, _)
\* c placed before the chunks of sorted whose similarity is equal
InsertBySim_BeforeEqual(sorted, c) ==
  IF sorted = <<>> THEN <<c>>
  ELSE IF Head(sorted).sim > c.sim THEN <<Head(sorted)>> \o InsertBySim(Tail(sorted), c)
  ELSE <<c>> \o sorted

\* c placed after every chunk of sorted whose similarity is not smaller
InsertBySim(sorted, c) ==
  IF sorted = <<>> THEN <<c>>
  ELSE IF Head(sorted).sim >= c.sim THEN <<Head(sorted)>> \o InsertBySim(Tail(sorted), c)
  ELSE <<c>> \o sorted

RECURSIVE SortBySim(_)
\* scoredChunks.sort((a, b) => b.similarity - a.similarity), a stable sort
SortBySim(chunks) ==
  IF chunks = <<>> THEN <<>>
  ELSE InsertBySim(SortBySim(SubSeq(chunks, 1, Len(chunks) - 1)), chunks[Len(chunks)])

RetrieveRelevantChunks(chunks, topK) ==
  LET sorted == SortBySim(chunks)
  IN SubSeq(sorted, 1, IF Len(sorted) < topK THEN Len(sorted) ELSE topK)

\* ---- chunkText (storage.ts).  A text is a sequence of characters; the loop of
\* chunkText is followed iteration by iteration, libResult holding its locals.
\* text.slice(start, end) for end in 0..text.length: a negative start counts
\* from the end of the text
Slice(text, start, end) ==
  LET from == IF start < 0 THEN (IF Len(text) + start < 0 THEN 0 ELSE Len(text) + start)
              ELSE start
  IN SubSeq(text, from + 1, end)

\* one iteration of while (start < text.length)
ChunkTextLoop ==
  LET text == libCalls[1].text
      start == libResult.start
      end == IF start + libCalls[1].chunkSize < Len(text)
             THEN start + libCalls[1].chunkSize ELSE Len(text)
  IN /\ ~libResult.returned
     /\ start < Len(text)
     /\ Len(libResult.chunks) < MaxPieces
     /\ libResult' = [libResult EXCEPT !.chunks = Append(@, Slice(text, start, end)),
                                       !.start = end - libCalls[1].overlap]
     /\ UNCHANGED <<uiVars, nStreams, nDeletes, turn, pc, aborted, streamVars, outcome,
                    stopSnap, cfgVars, libCalls, memVars, reqVars, netVars>>

\* the loop condition fails: return chunks
ChunkTextReturn ==
  /\ ~libResult.returned
  /\ libResult.start >= Len(libCalls[1].text)
  /\ libResult' = [libResult EXCEPT !.returned = TRUE]
  /\ UNCHANGED <<uiVars, nStreams, nDeletes, turn, pc, aborted, streamVars, outcome,
                 stopSnap, cfgVars, libCalls, memVars, reqVars, netVars>>
\* ---- generateEmbedding (storage.ts).  A character is its char code.
SPACE == 32
Dimension == 128                 \* new Array(128)
WeightScale == 60                \* weights 1 / (idx + 1) are counted in sixtieths

\* str.toLowerCase() on the letters A..Z
ToLowerCase(str) == [i \in 1..Len(str) |-> IF str[i] \in 65..90 THEN str[i] + 32 ELSE str[i]]

RECURSIVE SplitWhitespace(_, _, _)
\* text.split(/\s+/): words is the list so far, its last element the word being
\* read; inRun tells that the previous character was whitespace
SplitWhitespace(text, words, inRun) ==
  IF text = <<>> THEN words
  ELSE IF Head(text) = SPACE
  THEN SplitWhitespace(Tail(text), IF inRun THEN words ELSE Append(words, <<>>), TRUE)
  ELSE SplitWhitespace(Tail(text),
                       [words EXCEPT ![Len(words)] = Append(@, Head(text))], FALSE)

RECURSIVE Hash(_, _)
\* hash(str) from the running value h: ((h << 5) - h) + char, kept in 32 bits by
\* `hash & hash`, which changes nothing below 2^31 (words of up to 5 characters)
Hash(str, h) == IF str = <<>> THEN h ELSE Hash(Tail(str), 31 * h + Head(str))

Abs(n) == IF n < 0 THEN 0 - n ELSE n

RECURSIVE Accumulate(_, _, _)
\* words.forEach((word, idx) => embedding[hash(word) % 128] += 1 / (idx + 1))
Accumulate(words, idx, embedding) ==
  IF words = <<>> THEN embedding
  ELSE Accumulate(Tail(words), idx + 1,
                  [embedding EXCEPT ![Abs(Hash(Head(words), 0)) % Dimension] =
                     @ + WeightScale \div (idx + 1)])

RECURSIVE SumSquaresOver(_, _)
\* the sum of val * val over the components in indices
SumSquaresOver(embedding, indices) ==
  IF indices = {} THEN 0
  ELSE LET i == CHOOSE j \in indices : TRUE
       IN embedding[i] * embedding[i] + SumSquaresOver(embedding, indices \ {i})

\* embedding.reduce((sum, val) => sum + val * val, 0): the zero components add nothing
SumSquares(embedding) ==
  SumSquaresOver(embedding, {i \in 0..(Dimension - 1) : embedding[i] # 0})

\* generateEmbedding(text): the vector before normalisation and the square of its
\* magnitude; the returned component i is values[i] / magnitude if magnitude > 0,
\* and 0 otherwise
GenerateEmbedding(text) ==
  LET embedding == Accumulate(SplitWhitespace(ToLowerCase(text), <<<<>>>>, FALSE), 0,
                              [i \in 0..(Dimension - 1) |-> 0])
  IN [values |-> embedding, magnitude2 |-> SumSquares(embedding)]

\* one call of generateEmbedding on the text of libCalls
CallGenerateEmbedding ==
  /\ libResult = <<>>
  /\ libResult' = <<GenerateEmbedding(libCalls[1].text)>>
  /\ UNCHANGED <<uiVars, nStreams, nDeletes, turn, pc, aborted, streamVars, outcome,
                 stopSnap, cfgVars, libCalls, memVars, reqVars, netVars>>
\* ---- processFile (storage.ts) and DocumentsPanel.  While a file is processed
\* libCalls holds the call of chunkText and libResult the locals of its loop;
\* libResult.uploaded lists the names of the files whose upload has completed and
\* libResult.deleted the deletions.
DefaultChunkSize == 1000
DefaultOverlap == 200
StoredChunk(fileName, chunkIndex, content) ==
  [fileName |-> fileName, chunkIndex |-> chunkIndex, content |-> content]
NoUpload == [text |-> <<>>, chunkSize |-> DefaultChunkSize, overlap |-> DefaultOverlap,
             fileName |-> 0]

\* processFile: chunks.map((chunkText, index) => ({ content, metadata: { fileName, chunkIndex: index } }))
ProcessFile(fileName, chunks) == [i \in 1..Len(chunks) |-> StoredChunk(fileName, i - 1, chunks[i])]

\* handleFileUpload up to the loop of chunkText(text) with the default sizes
HandleFileUpload(fileName, text) ==
  /\ libCalls = <<NoUpload>>
  /\ Len(libResult.uploaded) < MaxUploads
  /\ libCalls' = <<[NoUpload EXCEPT !.text = text, !.fileName = fileName]>>
  /\ libResult' = [libResult EXCEPT !.start = 0, !.chunks = <<>>, !.returned = FALSE]
  /\ UNCHANGED <<uiVars, nStreams, nDeletes, turn, pc, aborted, streamVars, outcome,
                 stopSnap, cfgVars, memVars, reqVars, netVars>>

\* chunkText has returned: the rest of processFile, setDocuments(prev => [...prev,
\* ...chunks]), the save effect of the panel and the finally of handleFileUpload
UploadCompletes ==
  /\ libCalls # <<NoUpload>>
  /\ libResult.returned
  /\ documents' = documents \o ProcessFile(libCalls[1].fileName, libResult.chunks)
  /\ libCalls' = <<NoUpload>>
  /\ libResult' = [libResult EXCEPT !.uploaded = Append(@, libCalls[1].fileName)]
  /\ UNCHANGED <<uiVars, nStreams, nDeletes, turn, pc, aborted, streamVars, outcome,
                 stopSnap, apiKey, systemPrompt, llmSettings, activeConversationId, selectedDocuments, memVars,
                 reqVars, netVars>>

\* the record of a deletion: the file and whether it was selected
DeletedFile(fileName) == [fileName |-> fileName, selected |-> fileName \in selectedDocuments]

\* uniqueFiles: the files the panel lists
UniqueFiles == {documents[i].fileName : i \in 1..Len(documents)}

\* DocumentsPanel toggleSelection(fileName), offered for the listed files, and the
\* save effect of App
ToggleDocumentSelection(fileName) ==
  /\ libCalls = <<NoUpload>>
  /\ fileName \in UniqueFiles
  /\ selectedDocuments' = IF fileName \in selectedDocuments
                          THEN selectedDocuments \ {fileName}
                          ELSE selectedDocuments \cup {fileName}
  /\ UNCHANGED <<uiVars, nStreams, nDeletes, turn, pc, aborted, streamVars, outcome,
                 stopSnap, apiKey, systemPrompt, llmSettings, activeConversationId, documents, libVars, memVars,
                 reqVars, netVars>>

\* a deletion that leaves the selection as it is
HandleDeleteDocument_KeepsSelection(fileName) ==
  /\ libCalls = <<NoUpload>>
  /\ fileName \in UniqueFiles
  /\ documents' = SelectSeq(documents, LAMBDA c : c.fileName # fileName)
  /\ libResult' = [libResult EXCEPT !.deleted = Append(@, DeletedFile(fileName))]
  /\ UNCHANGED <<uiVars, nStreams, nDeletes, turn, pc, aborted, streamVars, outcome,
                 stopSnap, apiKey, systemPrompt, llmSettings, activeConversationId, selectedDocuments, libCalls,
                 memVars, reqVars, netVars>>

\* a deletion that removes only the first chunk of the file
HandleDeleteDocument_FirstChunk(fileName) ==
  /\ libCalls = <<NoUpload>>
  /\ \E i \in 1..Len(documents) : documents[i].fileName = fileName
  /\ documents' = SelectSeq(documents,
                            LAMBDA c : c.fileName # fileName \/ c.chunkIndex # 0)
  /\ selectedDocuments' = selectedDocuments \ {fileName}
  /\ libResult' = [libResult EXCEPT !.deleted = Append(@, DeletedFile(fileName))]
  /\ UNCHANGED <<uiVars, nStreams, nDeletes, turn, pc, aborted, streamVars, outcome,
                 stopSnap, apiKey, systemPrompt, llmSettings, activeConversationId, libCalls, memVars, reqVars,
                 netVars>>

\* DocumentsPanel handleDelete(fileName), offered for the files that have chunks,
\* and the save effect of the panel
HandleDeleteDocument(fileName) ==
  /\ libCalls = <<NoUpload>>
  /\ \E i \in 1..Len(documents) : documents[i].fileName = fileName
  /\ documents' = SelectSeq(documents, LAMBDA c : c.fileName # fileName)
  /\ selectedDocuments' = selectedDocuments \ {fileName}
  /\ libResult' = [libResult EXCEPT !.deleted = Append(@, DeletedFile(fileName))]
  /\ UNCHANGED <<uiVars, nStreams, nDeletes, turn, pc, aborted, streamVars, outcome,
                 stopSnap, apiKey, systemPrompt, llmSettings, activeConversationId, libCalls, memVars, reqVars,
                 netVars>>
\* ----------------------------------------------------------- context assembly
OpenRouterMessage(role, content) == [role |-> role, content |-> content]

RECURSIVE TrimText(_)
\* systemPrompt.trim()
TrimText(t) ==
  IF t = <<>> THEN <<>>
  ELSE IF Head(t) = 0 THEN TrimText(Tail(t))
  ELSE IF t[Len(t)] = 0 THEN TrimText(SubSeq(t, 1, Len(t) - 1))
  ELSE t

RECURSIVE JoinTexts(_, _)
\* texts.join(sep)
JoinTexts(texts, sep) ==
  IF texts = <<>> THEN <<>>
  ELSE IF Len(texts) = 1 THEN texts[1]
  ELSE texts[1] \o sep \o JoinTexts(Tail(texts), sep)

\* `Memory: ${m.title}\n${m.content}`
MemoryText(m) == <<1001, m.title, m.content>>
\* `[From ${chunk.metadata.fileName}]: ${chunk.content}`
ChunkText(c) == <<2001, c.fileName, c.id>>

\* the texts of the memories and of the excerpts, '' when there is none
SelectedMemoryTexts(mems, ids) ==
  LET sel == FilterMemories(mems, ids)
  IN JoinTexts([i \in 1..Len(sel) |-> MemoryText(sel[i])], <<1002>>)
RagContext(chunks) == JoinTexts([i \in 1..Len(chunks) |-> ChunkText(chunks[i])], <<2002>>)

\* contextMessages with the document excerpts placed before the memories
ContextMessages_DocsFirst(prompt, mems, ids, chunks) ==
  (IF TrimText(prompt) # <<>> THEN <<OpenRouterMessage("system", prompt)>> ELSE <<>>)
  \o (IF RagContext(chunks) # <<>>
      THEN <<OpenRouterMessage("system", <<2000>> \o RagContext(chunks))>>
      ELSE <<>>)
  \o (IF ids # {} /\ SelectedMemoryTexts(mems, ids) # <<>>
      THEN <<OpenRouterMessage("system", <<1000>> \o SelectedMemoryTexts(mems, ids))>>
      ELSE <<>>)

\* contextMessages: system prompt, memories, document excerpts
ContextMessages(prompt, mems, ids, chunks) ==
  (IF TrimText(prompt) # <<>> THEN <<OpenRouterMessage("system", prompt)>> ELSE <<>>)
  \o (IF ids # {} /\ SelectedMemoryTexts(mems, ids) # <<>>
      THEN <<OpenRouterMessage("system", <<1000>> \o SelectedMemoryTexts(mems, ids))>>
      ELSE <<>>)
  \o (IF RagContext(chunks) # <<>>
      THEN <<OpenRouterMessage("system", <<2000>> \o RagContext(chunks))>>
      ELSE <<>>)

\* llmSettings.max_messages ?? 10
MaxMessagesOf(settings) ==
  IF "max_messages" \in DOMAIN settings THEN settings.max_messages ELSE DefaultMaxMessages

\* array.slice(-k) for k >= 0: -0 is 0, so slice(-0) is the whole array
SliceLast(a, k) ==
  IF k = 0 THEN a
  ELSE SubSeq(a, (IF Len(a) - k > 0 THEN Len(a) - k ELSE 0) + 1, Len(a))

\* conversationMessages without the slice: the whole history
ConversationMessages_WholeHistory(historyMessages, maxMessages) ==
  [i \in 1..Len(historyMessages) |->
     OpenRouterMessage(historyMessages[i].role, historyMessages[i].content)]

\* historyMessages.slice(-maxMessages).map(m => ({ role: m.role, content: m.content }))
ConversationMessages(historyMessages, maxMessages) ==
  LET h == SliceLast(historyMessages, maxMessages)
  IN [i \in 1..Len(h) |-> OpenRouterMessage(h[i].role, h[i].content)]

\* allMessages that appends the user message on a rerun too
AllMessages_AlwaysAppends(ctx, conv, isRerun, userContent) ==
  ctx \o conv \o <<OpenRouterMessage("user", userContent)>>

AllMessages(ctx, conv, isRerun, userContent) ==
  IF isRerun THEN ctx \o conv
  ELSE ctx \o conv \o <<OpenRouterMessage("user", userContent)>>

\* ------------------------------------------------------------ user actions
\* executeCompletion from updateMessageContent up to `await fetch(...)`
OpenRequest(s, aid) ==
  /\ streamContentRef' = [set |-> TRUE, content |-> <<>>, messageId |-> aid]
  /\ abortControllerRef' = s
  /\ pc' = [pc EXCEPT ![s] = "opening"]

\* executeCompletion with an API key, up to its first await: the context is
\* assembled from what the handler captured; retrieval and the pricing lookup
\* suspend it before the request is opened
ExecuteCompletion(s, aid, userContent, historyMessages, modelToUse, isRerun) ==
  LET selectedDocs == FilterChunks(documents, selectedDocuments)
      retrieves == selectedDocuments # {} /\ selectedDocs # <<>>
      relevantChunks == IF retrieves THEN RetrieveRelevantChunks(selectedDocs, TopK) ELSE <<>>
      ctx == ContextMessages(systemPrompt, memories', selectedMemories, relevantChunks)
      conv == ConversationMessages(historyMessages, MaxMessagesOf(llmSettings))
  IN /\ request' = [request EXCEPT ![s] = AllMessages(ctx, conv, isRerun, userContent)]
     /\ rag' = [rag EXCEPT ![s] = [ran |-> retrieves, chunks |-> relevantChunks]]
     /\ IF retrieves
        THEN /\ pc' = [pc EXCEPT ![s] = "retrieving"]
             /\ UNCHANGED <<streamContentRef, abortControllerRef>>
        ELSE IF modelToUse # model
        THEN /\ pc' = [pc EXCEPT ![s] = "pricing"]
             /\ UNCHANGED <<streamContentRef, abortControllerRef>>
        ELSE OpenRequest(s, aid)

\* Settings, handleExit: the key typed in the dialog is stored (the other
\* settings are saved as they were loaded)
SaveAPIKey(key) ==
  /\ apiKey' = key
  /\ UNCHANGED <<uiVars, nStreams, nDeletes, turn, pc, aborted, streamVars, outcome, stopSnap,
                 systemPrompt, llmSettings, activeConversationId, selectedDocuments, documents, libVars, memVars,
                 reqVars, netVars>>

\* a missing key whose error passes the handler: no catch, no finally
MissingKey_Escapes(s, aid, msgs) ==
  /\ OnMessagesChange(activeConversationId, msgs)
  /\ streamingMessageId' = aid
  /\ isLoading' = TRUE
  /\ pc' = [pc EXCEPT ![s] = "settled"]
  /\ UNCHANGED <<outcome, streamContentRef, abortControllerRef, reqVars>>
\* executeCompletion without an API key throws before anything else; the catch
\* and the finally of handleSend / handleRerun run; msgs is the log with the
\* placeholder
MissingKey(s, aid, msgs) ==
  /\ OnMessagesChange(activeConversationId, SetContent(msgs, aid, ErrorText(ErrKey)))
  /\ streamingMessageId' = 0
  /\ isLoading' = FALSE
  /\ pc' = [pc EXCEPT ![s] = "settled"]
  /\ outcome' = [outcome EXCEPT ![s] = Append(@, "Errored")]
  /\ UNCHANGED <<streamContentRef, abortControllerRef, reqVars>>

\* handleSend without the call of incrementMemoryUseCount before the request
HandleSend_NoIncrement(text) ==
  /\ ~isLoading
  /\ nStreams < MaxStreams
  /\ LET s == nStreams + 1
         aid == nextId + 1
         msgs == messages \o <<Message(nextId, "user", <<text>>),
                               Message(aid, "assistant", <<>>)>>
     IN /\ memories' = memories
        /\ panelMemories' = panelMemories
        /\ uses' = [id \in DOMAIN uses |-> IF id \in selectedMemories THEN uses[id] + 1 ELSE uses[id]]
        /\ nextId' = nextId + 2
        /\ nStreams' = s
        /\ turn' = [turn EXCEPT ![s] = [assistantMessageId |-> aid, isRerun |-> FALSE,
                                        model |-> model, oldAssistantId |-> 0,
                                        conversationId |-> activeConversationId]]
        /\ IF apiKey
           THEN /\ OnMessagesChange(activeConversationId, msgs)
                /\ isLoading' = TRUE
                /\ streamingMessageId' = aid
                /\ ExecuteCompletion(s, aid, <<text>>, messages, model, FALSE)
                /\ UNCHANGED outcome
           ELSE MissingKey(s, aid, msgs)
  /\ UNCHANGED <<comparingMessages, modelUsage, currentSessionTokens, nDeletes, aborted,
                 streamVars, stopSnap, cfgVars, libVars, selectedMemories, showMemoryPanel, nEdits,
                 savedAfterUse, netVars>>

HandleSend(text) ==
  /\ ~isLoading
  /\ nStreams < MaxStreams
  /\ LET s == nStreams + 1
         aid == nextId + 1
         msgs == messages \o <<Message(nextId, "user", <<text>>),
                               Message(aid, "assistant", <<>>)>>
         used == selectedMemories # {}
     IN /\ memories' = IF used THEN IncrementMemoryUseCount(memories, selectedMemories)
                       ELSE memories
        \* onMemoriesUsed: the mounted panel reloads, then its save effect runs
        /\ panelMemories' = IF used /\ showMemoryPanel
                            THEN PanelReload(panelMemories, memories')
                            ELSE panelMemories
        /\ uses' = [id \in DOMAIN uses |-> IF id \in selectedMemories THEN uses[id] + 1 ELSE uses[id]]
        /\ nextId' = nextId + 2
        /\ nStreams' = s
        /\ turn' = [turn EXCEPT ![s] = [assistantMessageId |-> aid, isRerun |-> FALSE,
                                        model |-> model, oldAssistantId |-> 0,
                                        conversationId |-> activeConversationId]]
        /\ IF apiKey
           THEN /\ OnMessagesChange(activeConversationId, msgs)
                /\ isLoading' = TRUE
                /\ streamingMessageId' = aid
                /\ ExecuteCompletion(s, aid, <<text>>, messages, model, FALSE)
                /\ UNCHANGED outcome
           ELSE MissingKey(s, aid, msgs)
  /\ UNCHANGED <<comparingMessages, modelUsage, currentSessionTokens, nDeletes, aborted,
                 streamVars, stopSnap, cfgVars, libVars, selectedMemories, showMemoryPanel, nEdits,
                 savedAfterUse, netVars>>

HandleRerun(messageId, modelToUse) ==
  /\ ~isLoading
  /\ nStreams < MaxStreams
  /\ HasMessage(messages, messageId)
  /\ LET idx == IndexOf(messages, messageId)
         s == nStreams + 1
         aid == nextId
         hasExistingAssistant == idx + 1 <= Len(messages) /\ messages[idx + 1].role = "assistant"
         oldAssistantId == IF hasExistingAssistant THEN messages[idx + 1].id ELSE 0
         trimmed == SubSeq(messages, 1, idx)
         msgs == trimmed
                 \o (IF hasExistingAssistant THEN <<messages[idx + 1]>> ELSE <<>>)
                 \o <<Message(aid, "assistant", <<>>)>>
     IN /\ messages[idx].role = "user"
        /\ memories' = memories
        /\ panelMemories' = panelMemories
        /\ nextId' = nextId + 1
        /\ nStreams' = s
        /\ turn' = [turn EXCEPT ![s] = [assistantMessageId |-> aid, isRerun |-> TRUE,
                                        model |-> modelToUse, oldAssistantId |-> oldAssistantId,
                                        conversationId |-> activeConversationId]]
        /\ IF apiKey
           THEN /\ OnMessagesChange(activeConversationId, msgs)
                /\ streamingMessageId' = aid
                /\ isLoading' = TRUE
                /\ ExecuteCompletion(s, aid, messages[idx].content, trimmed, modelToUse, TRUE)
                /\ UNCHANGED outcome
           ELSE MissingKey(s, aid, msgs)
  /\ UNCHANGED <<comparingMessages, modelUsage, currentSessionTokens, nDeletes, aborted,
                 streamVars, stopSnap, cfgVars, libVars, selectedMemories, showMemoryPanel, nEdits, uses,
                 savedAfterUse, netVars>>

\* retrieveRelevantChunks() of a turn with selected documents has answered
RetrievalDone(s) ==
  /\ pc[s] = "retrieving"
  /\ IF turn[s].model # model
     THEN /\ pc' = [pc EXCEPT ![s] = "pricing"]
          /\ UNCHANGED <<streamContentRef, abortControllerRef>>
     ELSE OpenRequest(s, turn[s].assistantMessageId)
  /\ UNCHANGED <<messages, conversationMessages, isLoading, streamingMessageId, comparingMessages, modelUsage,
                 currentSessionTokens, nextId, nStreams, nDeletes, turn, aborted, streamVars,
                 outcome, stopSnap, cfgVars, libVars, memVars, reqVars, netVars>>

\* retrieveRelevantChunks() of a turn with selected documents has rejected (a
\* stored chunk without embedding whose content is not a string makes
\* generateEmbedding throw): the await at the call is outside every try of
\* executeCompletion, so the catch and the finally of handleSend / handleRerun
\* run and no request is opened
RetrievalFails(s) ==
  LET aid == turn[s].assistantMessageId
  IN /\ pc[s] = "retrieving"
     /\ rag' = [rag EXCEPT ![s] = [ran |-> TRUE, chunks |-> <<>>]]
     /\ request' = [request EXCEPT ![s] = <<>>]
     /\ streamingMessageId' = 0
     /\ OnMessagesChange(turn[s].conversationId,
                         CatchError(messages, aid, nextId, ErrRetrieval))
     /\ nextId' = IF HasMessage(messages, aid) THEN nextId ELSE nextId + 1
     /\ isLoading' = FALSE
     /\ pc' = [pc EXCEPT ![s] = "settled"]
     /\ outcome' = [outcome EXCEPT ![s] = Append(@, "Errored")]
     /\ UNCHANGED <<comparingMessages, abortControllerRef, streamContentRef, modelUsage,
                    currentSessionTokens, nStreams, nDeletes, turn, aborted, streamVars,
                    stopSnap, cfgVars, libVars, memVars, netVars>>
\* getModels() of a rerun with another model has answered
PricingDone(s) ==
  /\ pc[s] = "pricing"
  /\ OpenRequest(s, turn[s].assistantMessageId)
  /\ UNCHANGED <<messages, conversationMessages, isLoading, streamingMessageId, comparingMessages, modelUsage,
                 currentSessionTokens, nextId, nStreams, nDeletes, turn, aborted, streamVars,
                 outcome, stopSnap, cfgVars, libVars, memVars, reqVars, netVars>>

HandleStop ==
  /\ streamingMessageId # 0
  /\ abortControllerRef # 0
  /\ LET s == abortControllerRef
         aid == turn[s].assistantMessageId
     IN /\ aborted' = [aborted EXCEPT ![s] = TRUE]
        /\ outcome' = [outcome EXCEPT ![s] = Append(@, "Stopped")]
        /\ stopSnap' = [stopSnap EXCEPT ![s] =
             IF HasMessage(messages, aid) THEN <<ContentOf(messages, aid)>> ELSE <<>>]
  /\ streamContentRef' = NullRef
  /\ abortControllerRef' = 0
  /\ streamingMessageId' = 0
  /\ isLoading' = FALSE
  /\ UNCHANGED <<messages, conversationMessages, comparingMessages, modelUsage, currentSessionTokens, nextId,
                 nStreams, nDeletes, turn, pc, streamVars, cfgVars, libVars, memVars, reqVars, netVars>>

\* handleStop while a message is the streaming target (the Stop button is shown)
\* and abortControllerRef.current is still null: the body of its `if` is
\* skipped.  stopSnap records what the placeholder held at the click.
HandleStopWithoutController ==
  /\ streamingMessageId # 0
  /\ abortControllerRef = 0
  /\ \E s \in 1..nStreams :
       /\ turn[s].assistantMessageId = streamingMessageId
       /\ HasMessage(messages, streamingMessageId)
       /\ stopSnap' = [stopSnap EXCEPT ![s] = <<ContentOf(messages, streamingMessageId)>>]
  /\ UNCHANGED <<uiVars, nStreams, nDeletes, turn, pc, aborted, streamVars, outcome,
                 cfgVars, libVars, memVars, reqVars, netVars>>
InComparison(id) == id # 0 /\ (id = comparingMessages[1] \/ id = comparingMessages[2])

HandleDeleteMessage(messageId) ==
  /\ HasMessage(messages, messageId)
  /\ ~InComparison(messageId)
  /\ nDeletes < MaxDeletes
  /\ nDeletes' = nDeletes + 1
  /\ OnMessagesChange(activeConversationId, RemoveMessage(messages, messageId))
  /\ UNCHANGED <<isLoading, streamingMessageId, comparingMessages, abortControllerRef,
                 streamContentRef, modelUsage, currentSessionTokens, nextId, nStreams,
                 turn, pc, aborted, streamVars, outcome, stopSnap, cfgVars, libVars, memVars, reqVars,
                 netVars>>

HandleDeleteMessageAndBelow(messageId) ==
  /\ HasMessage(messages, messageId)
  /\ ~InComparison(messageId)
  /\ nDeletes < MaxDeletes
  /\ nDeletes' = nDeletes + 1
  /\ OnMessagesChange(activeConversationId,
                      SubSeq(messages, 1, IndexOf(messages, messageId) - 1))
  /\ UNCHANGED <<isLoading, streamingMessageId, comparingMessages, abortControllerRef,
                 streamContentRef, modelUsage, currentSessionTokens, nextId, nStreams,
                 turn, pc, aborted, streamVars, outcome, stopSnap, cfgVars, libVars, memVars, reqVars,
                 netVars>>

\* --------------------------------------------------------- network actions
\* fetch() resolved with an ok response that has a body: the reader is acquired
FetchOk(s, ks, tm) ==
  /\ pc[s] = "opening"
  /\ pc' = [pc EXCEPT ![s] = "reading"]
  /\ frames' = [frames EXCEPT ![s] = ks]
  /\ term' = [term EXCEPT ![s] = tm]
  /\ wire' = [wire EXCEPT ![s] = WireOf(ks, s, tm)]
  /\ readers' = [readers EXCEPT ![s] = @ + 1]
  /\ response' = [response EXCEPT ![s] = "ok"]
  /\ UNCHANGED <<uiVars, nStreams, nDeletes, turn, aborted, buffer, finalUsage, released, events,
                 captured, outcome, stopSnap, cfgVars, libVars, memVars, reqVars>>

\* a rejection after which the finally of handleSend / handleRerun leaves
\* isLoading as it is
Fail_KeepsLoading(s, cause, viaOnError) ==
  LET aid == turn[s].assistantMessageId
      msgs1 == IF viaOnError THEN SetContent(messages, aid, ErrorText(cause)) ELSE messages
  IN /\ streamContentRef' = NullRef
     /\ abortControllerRef' = 0
     /\ streamingMessageId' = 0
     /\ OnMessagesChange(turn[s].conversationId, CatchError(msgs1, aid, nextId, cause))
     /\ nextId' = IF HasMessage(msgs1, aid) THEN nextId ELSE nextId + 1
     /\ pc' = [pc EXCEPT ![s] = "settled"]
     /\ events' = [events EXCEPT ![s] = IF viaOnError THEN Append(@, ErrorEvent(cause)) ELSE @]
     /\ outcome' = [outcome EXCEPT ![s] = Append(@, "Errored")]
     /\ UNCHANGED <<isLoading, comparingMessages, modelUsage, currentSessionTokens, nStreams,
                    nDeletes, turn, aborted, wire, buffer, finalUsage, frames, term, captured,
                    stopSnap, cfgVars, libVars, memVars, reqVars, readers>>

\* The stream's promise rejects with cause.  viaOnError: the client called
\* onError before throwing; then the finally of executeCompletion, then the catch
\* and the finally of handleSend / handleRerun run.
Fail(s, cause, viaOnError) ==
  LET aid == turn[s].assistantMessageId
      \* onError: error.name is never 'AbortError', no signal reaches fetch
      msgs1 == IF viaOnError THEN SetContent(messages, aid, ErrorText(cause)) ELSE messages
  IN /\ streamContentRef' = NullRef
     /\ abortControllerRef' = 0
     /\ streamingMessageId' = 0
     /\ OnMessagesChange(turn[s].conversationId, CatchError(msgs1, aid, nextId, cause))
     /\ nextId' = IF HasMessage(msgs1, aid) THEN nextId ELSE nextId + 1
     /\ isLoading' = FALSE
     /\ pc' = [pc EXCEPT ![s] = "settled"]
     /\ events' = [events EXCEPT ![s] = IF viaOnError THEN Append(@, ErrorEvent(cause)) ELSE @]
     /\ outcome' = [outcome EXCEPT ![s] = Append(@, "Errored")]
     /\ UNCHANGED <<comparingMessages, modelUsage, currentSessionTokens, nStreams, nDeletes, turn,
                    aborted, wire, buffer, finalUsage, frames, term, captured, stopSnap,
                    cfgVars, libVars, memVars, reqVars, readers>>

\* a non-success status that throws without reporting through onError
FetchNotOk_NoOnError(s) ==
  /\ pc[s] = "opening"
  /\ Fail(s, ErrApi, FALSE)
  /\ response' = [response EXCEPT ![s] = "not ok"]
  /\ UNCHANGED released

\* fetch() resolved with a non-success status
FetchNotOk(s) ==
  /\ pc[s] = "opening"
  /\ Fail(s, ErrApi, TRUE)
  /\ response' = [response EXCEPT ![s] = "not ok"]
  /\ UNCHANGED released

\* fetch() rejected
FetchReject(s) ==
  /\ pc[s] = "opening"
  /\ Fail(s, ErrFetch, FALSE)
  /\ response' = [response EXCEPT ![s] = "rejected"]
  /\ UNCHANGED released

\* a rejected read that leaves the reader locked
StreamReadError_NoRelease(s) ==
  /\ pc[s] = "reading"
  /\ Fail(s, ErrRead, TRUE)
  /\ UNCHANGED <<released, response>>

\* reader.read() rejected: catch, onError, finally releaseLock
StreamReadError(s) ==
  /\ pc[s] = "reading"
  /\ Fail(s, ErrRead, TRUE)
  /\ released' = [released EXCEPT ![s] = @ + 1]
  /\ UNCHANGED response

\* The read loop has ended with decoder state st, carry-over rest and the
\* callbacks' view o of the chat: remaining buffer, onComplete, releaseLock, the
\* finally of executeCompletion, the rest of handleSend / handleRerun.
Finish(s, st, rest, o) ==
  LET st2 == DecodeRest(st, rest)
      usage == CompleteUsage(st2.finalUsage)
  IN /\ streamContentRef' = NullRef
     /\ streamingMessageId' = 0
     /\ abortControllerRef' = 0
     /\ modelUsage' = TrackModelUsage(modelUsage, turn[s].model, usage)
     /\ currentSessionTokens' = currentSessionTokens + usage.total_tokens
     /\ OnChunks(o, st.chunks)
     /\ released' = [released EXCEPT ![s] = @ + 1]
     /\ comparingMessages' = IF turn[s].isRerun /\ turn[s].oldAssistantId # 0
                             THEN <<turn[s].oldAssistantId, turn[s].assistantMessageId>>
                             ELSE comparingMessages
     /\ isLoading' = FALSE
     /\ pc' = [pc EXCEPT ![s] = "settled"]
     /\ finalUsage' = [finalUsage EXCEPT ![s] = st2.finalUsage]
     /\ captured' = [captured EXCEPT ![s] = st2.captured]
     /\ buffer' = [buffer EXCEPT ![s] = rest]
     /\ events' = [events EXCEPT ![s] = @ \o ChunkEvents(st.chunks) \o <<CompleteEvent(usage)>>]
     /\ outcome' = [outcome EXCEPT ![s] = Append(@, "Completed")]
     /\ UNCHANGED <<nextId, nStreams, nDeletes, turn, aborted, frames, term, stopSnap,
                    cfgVars, libVars, memVars, reqVars, netVars>>

DecoderState(s) == [chunks |-> <<>>, finalUsage |-> finalUsage[s],
                    captured |-> captured[s], seenDone |-> FALSE]

\* StreamRead without the carry-over buffer: a line cut by a read boundary is lost
StreamRead_NoCarry(s, n) ==
  /\ pc[s] = "reading"
  /\ n \in 1..Len(wire[s])
  /\ LET text == buffer[s] \o SubSeq(wire[s], 1, n)
         lines == SplitNL(text)
         rest == <<>>
         st == DecodeLines(DecoderState(s), SubSeq(lines, 1, Len(lines) - 1))
         o == ApplyChunks([ref |-> streamContentRef, msgs |-> messages], st.chunks)
     IN /\ wire' = [wire EXCEPT ![s] = SubSeq(@, n + 1, Len(@))]
        /\ IF st.seenDone
           THEN Finish(s, st, rest, o)
           ELSE /\ buffer' = [buffer EXCEPT ![s] = rest]
                /\ finalUsage' = [finalUsage EXCEPT ![s] = st.finalUsage]
                /\ captured' = [captured EXCEPT ![s] = st.captured]
                /\ events' = [events EXCEPT ![s] = @ \o ChunkEvents(st.chunks)]
                /\ streamContentRef' = o.ref
                /\ OnChunks(o, st.chunks)
                /\ UNCHANGED <<isLoading, streamingMessageId, comparingMessages,
                               abortControllerRef, modelUsage, currentSessionTokens, nextId,
                               nStreams, nDeletes, turn, pc, aborted, released, frames, term,
                               outcome, stopSnap, cfgVars, libVars, memVars, reqVars, netVars>>

\* reader.read() resolved with the next n atoms of the body
StreamRead(s, n) ==
  /\ pc[s] = "reading"
  /\ n \in 1..Len(wire[s])
  /\ LET text == buffer[s] \o SubSeq(wire[s], 1, n)
         lines == SplitNL(text)
         rest == lines[Len(lines)]
         st == DecodeLines(DecoderState(s), SubSeq(lines, 1, Len(lines) - 1))
         o == ApplyChunks([ref |-> streamContentRef, msgs |-> messages], st.chunks)
     IN /\ wire' = [wire EXCEPT ![s] = SubSeq(@, n + 1, Len(@))]
        /\ IF st.seenDone
           THEN Finish(s, st, rest, o)
           ELSE /\ buffer' = [buffer EXCEPT ![s] = rest]
                /\ finalUsage' = [finalUsage EXCEPT ![s] = st.finalUsage]
                /\ captured' = [captured EXCEPT ![s] = st.captured]
                /\ events' = [events EXCEPT ![s] = @ \o ChunkEvents(st.chunks)]
                /\ streamContentRef' = o.ref
                /\ OnChunks(o, st.chunks)
                /\ UNCHANGED <<isLoading, streamingMessageId, comparingMessages,
                               abortControllerRef, modelUsage, currentSessionTokens, nextId,
                               nStreams, nDeletes, turn, pc, aborted, released, frames, term,
                               outcome, stopSnap, cfgVars, libVars, memVars, reqVars, netVars>>

\* reader.read() resolved with done: the body is closed
StreamEnd(s) ==
  /\ pc[s] = "reading"
  /\ wire[s] = <<>>
  /\ Finish(s, DecoderState(s), buffer[s], [ref |-> streamContentRef, msgs |-> messages])
  /\ UNCHANGED wire

\* length of the next line of the body, its newline included
LineLen(w) == IF \E i \in 1..Len(w) : w[i] = NL
              THEN CHOOSE i \in 1..Len(w) : w[i] = NL /\ \A j \in 1..(i - 1) : w[j] # NL
              ELSE Len(w)

\* ---------------------------------------------------------- specifications
NoStreams(v) == [s \in Streams |-> v]

\* no function is under study
NoCalls == libCalls = <<>> /\ libResult = <<>>

\* the conversations after ensureConversationsInitialized: conversation 1 is
\* active and holds the messages shown, the others are empty
ConvIds == 1..MaxConversations
InitConversations ==
  /\ activeConversationId = 1
  /\ conversationMessages = [c \in ConvIds |-> IF c = 1 THEN messages ELSE <<>>]

InitStreams ==
  /\ turn = NoStreams(NoTurn)
  /\ pc = NoStreams("idle")
  /\ wire = NoStreams(<<>>)
  /\ buffer = NoStreams(<<>>)
  /\ finalUsage = NoStreams(0)
  /\ aborted = NoStreams(FALSE)
  /\ released = NoStreams(0)
  /\ events = NoStreams(<<>>)
  /\ frames = NoStreams(<<>>)
  /\ term = NoStreams(TRUE)
  /\ captured = NoStreams(<<>>)
  /\ outcome = NoStreams(<<>>)
  /\ stopSnap = NoStreams(<<>>)
  /\ request = NoStreams(<<>>)
  /\ rag = NoStreams(NoRag)
  /\ readers = NoStreams(0)
  /\ response = NoStreams("none")

\* the stored settings of the chat specifications after n sends: a key, a system
\* prompt, one memory that is selected, no document, the panel open
SettingsAfter(n) ==
  /\ apiKey = TRUE
  /\ systemPrompt = <<9>>
  /\ llmSettings = NoSettings
  /\ selectedDocuments = {}
  /\ documents = <<>>
  /\ memories = <<Memory(1, 11, n)>>
  /\ selectedMemories = {1}
  /\ showMemoryPanel = TRUE
  /\ panelMemories = memories
  /\ nEdits = 0
  /\ savedAfterUse = FALSE
  /\ uses = [id \in MemIds |-> IF id = 1 THEN n ELSE 0]

\* the chat as mounted: empty conversation, nothing in flight
Init ==
  /\ messages = <<>>
  /\ isLoading = FALSE
  /\ streamingMessageId = 0
  /\ comparingMessages = <<0, 0>>
  /\ abortControllerRef = 0
  /\ streamContentRef = NullRef
  /\ modelUsage = <<>>
  /\ currentSessionTokens = 0
  /\ nextId = 1
  /\ nStreams = 0
  /\ nDeletes = 0
  /\ InitStreams
  /\ NoCalls
  /\ InitConversations
  /\ SettingsAfter(0)

Next ==
  \/ \E text \in Inputs : HandleSend(text)
  \/ \E id \in 1..(3 * MaxStreams), m \in Models : HandleRerun(id, m)
  \/ \E s \in Streams : PricingDone(s)
  \/ HandleStop
  \/ \E id \in 1..(3 * MaxStreams) : HandleDeleteMessage(id)
  \/ \E id \in 1..(3 * MaxStreams) : HandleDeleteMessageAndBelow(id)
  \/ \E s \in Streams, ks \in ChatFrameSeqs : FetchOk(s, ks, TRUE)
  \/ \E s \in Streams : FetchNotOk(s)
  \/ \E s \in Streams : FetchReject(s)
  \/ \E s \in Streams : StreamRead(s, LineLen(wire[s]))
  \/ \E s \in Streams : StreamEnd(s)
  \/ \E s \in Streams : StreamReadError(s)

Spec == Init /\ [][Next]_vars

\* The client under the chat with neither reruns nor deletions: turns are sent
\* and stopped, and each request is answered, refused or rejected and its body
\* read to one of its ends.
NextClient ==
  \/ \E text \in Inputs : HandleSend(text)
  \/ HandleStop
  \/ \E s \in Streams, ks \in ChatFrameSeqs : FetchOk(s, ks, TRUE)
  \/ \E s \in Streams : FetchNotOk(s)
  \/ \E s \in Streams : FetchReject(s)
  \/ \E s \in Streams : StreamRead(s, LineLen(wire[s]))
  \/ \E s \in Streams : StreamEnd(s)
  \/ \E s \in Streams : StreamReadError(s)

SpecClient == Init /\ [][NextClient]_vars

\* Failing turns: turns are sent and stopped, messages are deleted, and each
\* request is refused, rejected, or answered with a body whose read succeeds or
\* is rejected.
NextFailure ==
  \/ \E text \in Inputs : HandleSend(text)
  \/ HandleStop
  \/ \E id \in 1..(3 * MaxStreams) : HandleDeleteMessage(id)
  \/ \E s \in Streams : FetchOk(s, <<"done">>, TRUE)
  \/ \E s \in Streams : FetchNotOk(s)
  \/ \E s \in Streams : FetchReject(s)
  \/ \E s \in Streams : StreamRead(s, LineLen(wire[s]))
  \/ \E s \in Streams : StreamReadError(s)

SpecFailure == Init /\ [][NextFailure]_vars
\* Turns with and without a stored key: the key is saved and cleared in the
\* settings, turns are sent and rerun, and the requests that are opened are
\* answered.
NextKey ==
  \/ \E key \in BOOLEAN : SaveAPIKey(key)
  \/ \E text \in Inputs : HandleSend(text)
  \/ \E id \in 1..(3 * MaxStreams), m \in Models : HandleRerun(id, m)
  \/ \E s \in Streams : PricingDone(s)
  \/ \E s \in Streams : FetchOk(s, <<"content", "usage", "done">>, TRUE)
  \/ \E s \in Streams : FetchNotOk(s)
  \/ \E s \in Streams : StreamRead(s, LineLen(wire[s]))

SpecKey == Init /\ [][NextKey]_vars
\* The usage table under calls of trackModelUsage with any arguments
TokenCounts == {<<0, 0, 0>>, <<3, 1, 2>>, <<5, Undefined, Undefined>>}
Pricings == {NoPricing, Pricing(2, 4), Pricing(3, 0)}

NextUsage ==
  \E modelId \in Models, u \in TokenCounts, pricing \in Pricings :
    CallTrackModelUsage(modelId, u[1], u[2], u[3], pricing)

SpecUsage == Init /\ [][NextUsage]_vars
\* The cost of a stored usage table: the table is any one of up to two records,
\* one per model, and the statistics are computed under any pricing of the
\* selected model.
ModelUsage(modelId, u, pricing) ==
  [modelId |-> modelId, requestCount |-> 1, totalTokens |-> u[1], totalPromptTokens |-> u[2],
   totalCompletionTokens |-> u[3], pricing |-> pricing]
StoredCounts == {<<0, 0, 0>>, <<3, 1, 2>>, <<5, 0, 0>>, <<3, 0, 3>>}
UsageTables ==
  {<<>>}
  \cup {<<ModelUsage("m1", u, p)>> : u \in StoredCounts, p \in Pricings}
  \cup {<<ModelUsage("m1", u[1], p[1]), ModelUsage("m2", u[2], p[2])>> :
          u \in StoredCounts \X StoredCounts, p \in Pricings \X Pricings}

\* the chat as mounted, apart from the usage table and the stored settings
NoChat ==
  /\ messages = <<>>
  /\ isLoading = FALSE
  /\ streamingMessageId = 0
  /\ comparingMessages = <<0, 0>>
  /\ abortControllerRef = 0
  /\ streamContentRef = NullRef
  /\ currentSessionTokens = 0
  /\ nextId = 1
  /\ nStreams = 0
  /\ nDeletes = 0
  /\ InitConversations
  /\ InitStreams

InitCost ==
  /\ NoChat
  /\ SettingsAfter(0)
  /\ NoCalls
  /\ modelUsage \in UsageTables

NextCost == \E modelPricing \in Pricings \cup {Pricing(7, 7)} : ComputeOverallStats(modelPricing)

SpecCost == InitCost /\ [][NextCost]_vars
\* Retrieval on its own: any list of up to MaxChunks stored chunks, numbered in
\* input order, with any similarities to the query, and any topK
SettingsWithoutDocuments ==
  /\ apiKey = TRUE
  /\ systemPrompt = <<9>>
  /\ llmSettings = NoSettings
  /\ selectedDocuments = {}
  /\ memories = <<>>
  /\ selectedMemories = {}
  /\ showMemoryPanel = FALSE
  /\ panelMemories = <<>>
  /\ nEdits = 0
  /\ savedAfterUse = FALSE
  /\ uses = [id \in MemIds |-> 0]

Similarities == {1, 2, 3}
ChunkLists ==
  UNION {{[i \in 1..n |-> DocumentChunk(i, 1, sims[i])] : sims \in [1..n -> Similarities]} :
           n \in 0..MaxChunks}

InitRetrieve ==
  /\ NoChat
  /\ SettingsWithoutDocuments
  /\ NoCalls
  /\ modelUsage = <<>>
  /\ documents \in ChunkLists

\* retrieveRelevantChunks(query, chunks, topK) on the stored chunks
Retrieve(topK) ==
  /\ libCalls = <<>>
  /\ libCalls' = <<[topK |-> topK]>>
  /\ libResult' = RetrieveRelevantChunks(documents, topK)
  /\ UNCHANGED <<uiVars, nStreams, nDeletes, turn, pc, aborted, streamVars, outcome, stopSnap,
                 cfgVars, memVars, reqVars, netVars>>

NextRetrieve == \E topK \in 0..(MaxChunks + 1) : Retrieve(topK)

SpecRetrieve == InitRetrieve /\ [][NextRetrieve]_vars
\* chunkText on its own: a call with any text of up to MaxText characters, all
\* different, and any chunkSize > overlap > 0
Texts == {[i \in 1..n |-> i] : n \in 0..MaxText}
ChunkSizes == {<<2, 1>>, <<3, 1>>, <<3, 2>>, <<4, 1>>, <<4, 3>>}

InitChunk ==
  /\ NoChat
  /\ SettingsAfter(0)
  /\ modelUsage = <<>>
  /\ \E text \in Texts, so \in ChunkSizes :
       libCalls = <<[text |-> text, chunkSize |-> so[1], overlap |-> so[2]]>>
  /\ libResult = [start |-> 0, chunks |-> <<>>, returned |-> FALSE]

NextChunk == ChunkTextLoop \/ ChunkTextReturn

SpecChunk == InitChunk /\ [][NextChunk]_vars
\* generateEmbedding on its own: any text of up to MaxEmbedText characters over
\* a space, an upper-case letter and two lower-case letters
Characters == {SPACE, 65, 97, 98}
EmbedTexts == UNION {[1..n -> Characters] : n \in 0..MaxEmbedText}

InitEmbed ==
  /\ NoChat
  /\ SettingsAfter(0)
  /\ modelUsage = <<>>
  /\ \E text \in EmbedTexts : libCalls = <<[text |-> text]>>
  /\ libResult = <<>>

NextEmbed == CallGenerateEmbedding

SpecEmbed == InitEmbed /\ [][NextEmbed]_vars
\* The documents panel: the store holds nothing or two files as an upload would
\* have stored them; files named 1 and 2 are uploaded, empty or not, and deleted.
StoredDocuments ==
  {<<>>,
   <<StoredChunk(1, 0, <<1, 2>>), StoredChunk(1, 1, <<2, 3>>), StoredChunk(2, 0, <<7>>)>>}
UploadTexts == {<<>>, <<1>>, <<1, 2>>}

InitDocuments ==
  /\ NoChat
  /\ SettingsWithoutDocuments
  /\ modelUsage = <<>>
  /\ documents \in StoredDocuments
  /\ libCalls = <<NoUpload>>
  /\ libResult = [start |-> 0, chunks |-> <<>>, returned |-> TRUE, uploaded |-> <<>>,
                  deleted |-> <<>>]

NextDocuments ==
  \/ \E fileName \in {1, 2}, text \in UploadTexts : HandleFileUpload(fileName, text)
  \/ ChunkTextLoop
  \/ ChunkTextReturn
  \/ UploadCompletes
  \/ \E fileName \in {1, 2} : HandleDeleteDocument(fileName)
  \/ \E fileName \in {1, 2} : ToggleDocumentSelection(fileName)

SpecDocuments == InitDocuments /\ [][NextDocuments]_vars
\* Stopping at any moment of a turn: one stored chunk whose file may be
\* selected, so that a send waits for retrieval, and reruns with the other model,
\* which wait for the pricing lookup; every request is answered with a content
\* frame, a usage frame and the sentinel.
InitStop ==
  /\ NoChat
  /\ NoCalls
  /\ modelUsage = <<>>
  /\ apiKey = TRUE
  /\ systemPrompt = <<9>>
  /\ llmSettings = NoSettings
  /\ documents = <<DocumentChunk(1, 1, 3)>>
  /\ selectedDocuments \in {{}, {1}}
  /\ memories = <<>>
  /\ selectedMemories = {}
  /\ showMemoryPanel = FALSE
  /\ panelMemories = <<>>
  /\ nEdits = 0
  /\ savedAfterUse = FALSE
  /\ uses = [id \in MemIds |-> 0]

NextStop ==
  \/ \E text \in Inputs : HandleSend(text)
  \/ \E id \in 1..(3 * MaxStreams), m \in Models : HandleRerun(id, m)
  \/ \E s \in Streams : RetrievalDone(s)
  \/ \E s \in Streams : PricingDone(s)
  \/ HandleStop
  \/ HandleStopWithoutController
  \/ \E s \in Streams : FetchOk(s, <<"content", "usage", "done">>, TRUE)
  \/ \E s \in Streams : StreamRead(s, LineLen(wire[s]))

SpecStop == InitStop /\ [][NextStop]_vars
\* Turns to their end: as under SpecStop, and each request is answered with a
\* body that ends with the sentinel or without it, refused or rejected, and a
\* read may fail. Every awaited promise settles: retrieval and the pricing
\* lookup return, fetch resolves or rejects, and every read resolves or rejects.
Bodies == {<<"content", "usage", "done">>, <<"content">>}

Settles(s) ==
  \/ RetrievalDone(s)
  \/ PricingDone(s)
  \/ FetchNotOk(s)
  \/ FetchReject(s)
  \/ \E ks \in Bodies : FetchOk(s, ks, TRUE)
  \/ StreamReadError(s)
  \/ StreamEnd(s)
  \/ StreamRead(s, LineLen(wire[s]))

\* as InitStop, with an API key stored or not
InitTerminal ==
  /\ NoChat
  /\ NoCalls
  /\ modelUsage = <<>>
  /\ apiKey \in BOOLEAN
  /\ systemPrompt = <<9>>
  /\ llmSettings = NoSettings
  /\ documents = <<DocumentChunk(1, 1, 3)>>
  /\ selectedDocuments \in {{}, {1}}
  /\ memories = <<>>
  /\ selectedMemories = {}
  /\ showMemoryPanel = FALSE
  /\ panelMemories = <<>>
  /\ nEdits = 0
  /\ savedAfterUse = FALSE
  /\ uses = [id \in MemIds |-> 0]

NextTerminal ==
  \/ \E text \in Inputs : HandleSend(text)
  \/ \E id \in 1..(3 * MaxStreams), m \in Models : HandleRerun(id, m)
  \/ HandleStop
  \/ HandleStopWithoutController
  \/ \E s \in Streams : RetrievalDone(s)
  \/ \E s \in Streams : PricingDone(s)
  \/ \E s \in Streams, ks \in Bodies : FetchOk(s, ks, TRUE)
  \/ \E s \in Streams : FetchNotOk(s)
  \/ \E s \in Streams : FetchReject(s)
  \/ \E s \in Streams : StreamRead(s, LineLen(wire[s]))
  \/ \E s \in Streams : StreamEnd(s)
  \/ \E s \in Streams : StreamReadError(s)

SpecTerminal ==
  InitTerminal /\ [][NextTerminal]_vars /\ \A s \in Streams : WF_vars(Settles(s))
\* Conversations: conversation 1 is active and empty, conversation 2 is empty or
\* holds an earlier turn; the user sends, switches and stops while the provider
\* answers or refuses.
StoredTurn == <<Message(1, "user", <<1>>), Message(2, "assistant", <<2>>)>>

InitSwitch ==
  /\ messages = <<>>
  /\ isLoading = FALSE
  /\ streamingMessageId = 0
  /\ comparingMessages = <<0, 0>>
  /\ abortControllerRef = 0
  /\ streamContentRef = NullRef
  /\ currentSessionTokens = 0
  /\ nextId = 3
  /\ nStreams = 0
  /\ nDeletes = 0
  /\ activeConversationId = 1
  /\ conversationMessages \in {[c \in ConvIds |-> IF c = 2 THEN stored ELSE <<>>] :
                                 stored \in {<<>>, StoredTurn}}
  /\ InitStreams
  /\ NoCalls
  /\ modelUsage = <<>>
  /\ SettingsWithoutDocuments
  /\ documents = <<>>

NextConversations ==
  \/ \E text \in Inputs : HandleSend(text)
  \/ \E id \in ConvIds : HandleSelectConversation(id)
  \/ HandleStop
  \/ \E s \in Streams : FetchOk(s, <<"content", "usage", "done">>, TRUE)
  \/ \E s \in Streams : FetchNotOk(s)
  \/ \E s \in Streams : StreamRead(s, LineLen(wire[s]))

SpecConversations == InitSwitch /\ [][NextConversations]_vars
\* The decoder on its own: one turn whose request has been answered with an ok
\* response; the body is any sequence of lines, cut into reads at any atom.
InitDecodeOver(bodies) ==
  /\ messages = <<Message(1, "user", <<1>>), Message(2, "assistant", <<>>)>>
  /\ isLoading = TRUE
  /\ streamingMessageId = 2
  /\ comparingMessages = <<0, 0>>
  /\ abortControllerRef = 1
  /\ streamContentRef = [set |-> TRUE, content |-> <<>>, messageId |-> 2]
  /\ modelUsage = <<>>
  /\ currentSessionTokens = 0
  /\ nextId = 3
  /\ nStreams = 1
  /\ nDeletes = 0
  /\ \E ks \in bodies, tm \in BOOLEAN :
       /\ (ks = <<>> => tm)
       /\ turn = [NoStreams(NoTurn) EXCEPT ![1] = [assistantMessageId |-> 2, isRerun |-> FALSE,
                                                   model |-> model, oldAssistantId |-> 0,
                                                   conversationId |-> 1]]
       /\ pc = [NoStreams("idle") EXCEPT ![1] = "reading"]
       /\ frames = [NoStreams(<<>>) EXCEPT ![1] = ks]
       /\ term = [NoStreams(TRUE) EXCEPT ![1] = tm]
       /\ wire = [NoStreams(<<>>) EXCEPT ![1] = WireOf(ks, 1, tm)]
  /\ buffer = NoStreams(<<>>)
  /\ finalUsage = NoStreams(0)
  /\ aborted = NoStreams(FALSE)
  /\ released = NoStreams(0)
  /\ events = NoStreams(<<>>)
  /\ captured = NoStreams(<<>>)
  /\ outcome = NoStreams(<<>>)
  /\ stopSnap = NoStreams(<<>>)
  /\ SettingsAfter(1)
  /\ request = [NoStreams(<<>>) EXCEPT ![1] =
       AllMessages(ContextMessages(systemPrompt, memories, selectedMemories, <<>>),
                   <<>>, FALSE, <<1>>)]
  /\ rag = NoStreams(NoRag)
  /\ readers = [NoStreams(0) EXCEPT ![1] = 1]
  /\ response = [NoStreams("none") EXCEPT ![1] = "ok"]
  /\ NoCalls
  /\ InitConversations

InitDecode == InitDecodeOver(FrameSeqs)

NextDecode ==
  \/ \E s \in Streams, n \in 1..MaxRead : StreamRead(s, n)
  \/ \E s \in Streams : StreamEnd(s)

SpecDecode == InitDecode /\ [][NextDecode]_vars

\* The decoder under every cut of the body: as SpecDecode, with reads of any
\* length up to the whole body.
NextPartition ==
  \/ \E s \in Streams, n \in 1..(4 * MaxLines) : StreamRead(s, n)
  \/ \E s \in Streams : StreamEnd(s)

SpecPartition == InitDecode /\ [][NextPartition]_vars
\* The decoder on frames that carry a usage with and without a content part:
\* choices with one element, empty, or absent.
UsageFrameKinds == {"content", "usage", "usageEmptyChoices", "usageNoChoices", "done"}
UsageFrameSeqs == UNION {[1..n -> UsageFrameKinds] : n \in 0..MaxLines}

InitUsageFrames == InitDecodeOver(UsageFrameSeqs)

SpecUsageFrames == InitUsageFrames /\ [][NextDecode]_vars
\* The assembly of the request on its own: a conversation of any length up to
\* MaxHistory, any system prompt, history window, selection of memories and of
\* documents; one send or rerun runs up to the opening of its request.
Prompts == {<<>>, <<0>>, <<0, 9>>}      \* empty, blank, a text
Settings == {NoSettings} \cup {[max_messages |-> k] : k \in 0..MaxWindow}
FileNames == {1, 2, 3}                 \* no stored chunk belongs to file 3

\* the stored chunks: six of file 1, one of file 2
Corpus ==
  <<DocumentChunk(1, 1, 3), DocumentChunk(2, 1, 5), DocumentChunk(3, 2, 9),
    DocumentChunk(4, 1, 5), DocumentChunk(5, 1, 1), DocumentChunk(6, 1, 4),
    DocumentChunk(7, 1, 2)>>

\* a stored conversation of n messages, user and assistant in turn
History(n) ==
  [i \in 1..n |-> Message(i, IF i % 2 = 1 THEN "user" ELSE "assistant", <<20 + i>>)]

InitContext ==
  /\ \E n \in 0..MaxHistory : messages = History(n) /\ nextId = n + 1
  /\ isLoading = FALSE
  /\ streamingMessageId = 0
  /\ comparingMessages = <<0, 0>>
  /\ abortControllerRef = 0
  /\ streamContentRef = NullRef
  /\ modelUsage = <<>>
  /\ currentSessionTokens = 0
  /\ nStreams = 0
  /\ nDeletes = 0
  /\ InitStreams
  /\ NoCalls
  /\ InitConversations
  /\ apiKey = TRUE
  /\ systemPrompt \in Prompts
  /\ llmSettings \in Settings
  /\ documents = Corpus
  /\ selectedDocuments \in {{}, {1}, {2}, {1, 2}, {3}}
  /\ memories = <<Memory(1, 11, 0), Memory(2, 21, 0)>>
  /\ selectedMemories \in {{}, {2}, {1, 2}, {3}}
  /\ showMemoryPanel = TRUE
  /\ panelMemories = memories
  /\ nEdits = 0
  /\ savedAfterUse = FALSE
  /\ uses = [id \in MemIds |-> 0]

NextContext ==
  \/ \E text \in Inputs : HandleSend(text)
  \/ \E id \in 1..MaxHistory, m \in Models : HandleRerun(id, m)
  \/ \E s \in Streams : RetrievalDone(s)
  \/ \E s \in Streams : PricingDone(s)

SpecContext == InitContext /\ [][NextContext]_vars

\* Request assembly when retrieval may reject
NextRetrieval ==
  \/ NextContext
  \/ \E s \in Streams : RetrievalFails(s)

SpecRetrieval == InitContext /\ [][NextRetrieval]_vars

\* The memories: the chat with one stored memory, selected, with or without an
\* API key, and the memory panel.
InitMemories ==
  /\ messages = <<>>
  /\ isLoading = FALSE
  /\ streamingMessageId = 0
  /\ comparingMessages = <<0, 0>>
  /\ abortControllerRef = 0
  /\ streamContentRef = NullRef
  /\ modelUsage = <<>>
  /\ currentSessionTokens = 0
  /\ nextId = 1
  /\ nStreams = 0
  /\ nDeletes = 0
  /\ InitStreams
  /\ NoCalls
  /\ InitConversations
  /\ apiKey \in BOOLEAN
  /\ systemPrompt = <<9>>
  /\ llmSettings = NoSettings
  /\ selectedDocuments = {}
  /\ documents = <<>>
  /\ memories = <<Memory(1, 11, 0)>>
  /\ selectedMemories = {1}
  /\ showMemoryPanel = TRUE
  /\ panelMemories = memories
  /\ nEdits = 0
  /\ savedAfterUse = FALSE
  /\ uses = [id \in MemIds |-> 0]

NextMemories ==
  \/ \E text \in Inputs : HandleSend(text)
  \/ HandleStop
  \/ \E s \in Streams : FetchOk(s, <<"content", "usage", "done">>, TRUE)
  \/ \E s \in Streams : FetchNotOk(s)
  \/ \E s \in Streams : StreamRead(s, LineLen(wire[s]))
  \/ ToggleMemoryPanel
  \/ PanelHandleAdd
  \/ \E id \in MemIds : PanelSaveEdit(id)
  \/ \E id \in MemIds : PanelHandleDelete(id)
  \/ \E id \in MemIds : ToggleSelection(id)

SpecMemories == InitMemories /\ [][NextMemories]_vars

\* ------------------------------------------------- vocabulary of the claims
IsPrefix(a, b) == Len(a) <= Len(b) /\ SubSeq(b, 1, Len(a)) = a

RECURSIVE SelectEvents(_, _)
\* the events of kind e, in order
SelectEvents(evs, e) ==
  IF evs = <<>> THEN <<>>
  ELSE (IF Head(evs).e = e THEN <<Head(evs)>> ELSE <<>>) \o SelectEvents(Tail(evs), e)

ChunkValues(evs) == LET cs == SelectEvents(evs, "chunk") IN [i \in 1..Len(cs) |-> cs[i].v]
Count(evs, e) == Len(SelectEvents(evs, e))

\* index of the sentinel line of a body, Len + 1 when it has none
FirstDone(ks) == IF \E i \in 1..Len(ks) : ks[i] = "done"
                 THEN CHOOSE i \in 1..Len(ks) : ks[i] = "done" /\ \A j \in 1..(i - 1) : ks[j] # "done"
                 ELSE Len(ks) + 1
DoneLastOrAbsent(ks) == FirstDone(ks) >= Len(ks)

RECURSIVE FrameDeltas(_, _, _, _)
\* the deltas of the frames (newline-terminated content lines) i.. before the sentinel
FrameDeltas(ks, s, tm, i) ==
  IF i >= FirstDone(ks) \/ i > Len(ks) THEN <<>>
  ELSE (IF ks[i] = "content" /\ (i < Len(ks) \/ tm) THEN <<Delta(s, i)>> ELSE <<>>)
       \o FrameDeltas(ks, s, tm, i + 1)

\* the usage of the last usage line before the sentinel
UsageLines(ks) == {i \in 1..Len(ks) : ks[i] = "usage" /\ i < FirstDone(ks)}
LastUsage(ks) == IF UsageLines(ks) = {} THEN ZeroUsage
                 ELSE UsageOf(CHOOSE i \in UsageLines(ks) : \A j \in UsageLines(ks) : j <= i)

Settled(s) == pc[s] = "settled"

\* ---------------------------------------------------------------- C1
IsC1Body(ks) ==
  /\ Len(ks) >= 2
  /\ ks[Len(ks)] = "done"
  /\ ks[Len(ks) - 1] = "usage"
  /\ \A i \in 1..(Len(ks) - 2) : ks[i] = "content"

C1Expected(s) ==
  LET n == Len(frames[s]) - 2
  IN ChunkEvents([i \in 1..n |-> Delta(s, i)]) \o <<CompleteEvent(UsageOf(n + 1))>>

\* C1: for a body made of content frames d1..dn, a usage frame u and the
\* sentinel, the client calls onChunk(d1)..onChunk(dn) in that order, then
\* onComplete(u) once, and nothing else: at every moment the calls made so far
\* are a prefix of that sequence, and they are all of it once the stream settled,
\* however the body is cut into reads.
C1_ChunksThenUsage ==
  \A s \in Streams :
    IsC1Body(frames[s]) =>
      /\ IsPrefix(events[s], C1Expected(s))
      /\ Settled(s) => events[s] = C1Expected(s)

C1_Witness ==
  \E s \in Streams :
    /\ IsC1Body(frames[s]) /\ Len(frames[s]) = 4 /\ Settled(s)
    /\ events[s] = <<[e |-> "chunk", v |-> Delta(s, 1), usage |-> ZeroUsage],
                     [e |-> "chunk", v |-> Delta(s, 2), usage |-> ZeroUsage],
                     CompleteEvent(UsageOf(3))>>

\* ---------------------------------------------------------------- C9
HasBad(ks) == \E i \in 1..Len(ks) : ks[i] = "bad"

\* C9: a data line whose payload does not parse is skipped: in a body that has
\* one, every content frame before the sentinel still gives its onChunk, in
\* order, the usage of the last usage line is still the one reported, onError is
\* not called and the stream ends with exactly one onComplete, as its last call.
C9_MalformedLineSkipped ==
  \A s \in Streams :
    (Settled(s) /\ HasBad(frames[s])) =>
      /\ ChunkValues(events[s]) = FrameDeltas(frames[s], s, term[s], 1)
      /\ Count(events[s], "error") = 0
      /\ Count(events[s], "complete") = 1
      /\ events[s][Len(events[s])].e = "complete"
      /\ DoneLastOrAbsent(frames[s]) => events[s][Len(events[s])].usage = LastUsage(frames[s])

C9_Witness ==
  \E s \in Streams :
    /\ Settled(s)
    /\ frames[s] = <<"bad", "content", "usage", "done">>
    /\ ChunkValues(events[s]) = <<Delta(s, 2)>>
    /\ events[s][Len(events[s])] = CompleteEvent(UsageOf(3))

\* ---------------------------------------------------------------- C10
\* C10: when the read loop has ended, with or without a sentinel, exactly one
\* onComplete has been called; it carries the last usage captured, which is the
\* usage of the last usage line when nothing follows the sentinel, and
\* {0, 0, 0} when no usage was captured.
C10_OneCompleteWithLastUsage ==
  \A s \in Streams :
    (Settled(s) /\ Count(events[s], "error") = 0) =>
      /\ Count(events[s], "complete") = 1
      /\ LET u == SelectEvents(events[s], "complete")[1].usage
         IN /\ u = IF captured[s] = <<>> THEN ZeroUsage
                   ELSE UsageOf(captured[s][Len(captured[s])])
            /\ DoneLastOrAbsent(frames[s]) => u = LastUsage(frames[s])
            /\ (\A i \in 1..Len(frames[s]) : frames[s][i] # "usage") => u = ZeroUsage

\* the body closed without a sentinel after two usage frames
C10_Witness ==
  \E s \in Streams :
    /\ Settled(s)
    /\ frames[s] = <<"usage", "content", "usage">>
    /\ wire[s] = <<>>
    /\ SelectEvents(events[s], "complete") = <<CompleteEvent(UsageOf(3))>>

\* ------------------------------------------------------ turns and outcomes
PlaceholderOf(s) == turn[s].assistantMessageId
InFlight(s) == pc[s] \in {"pricing", "opening", "reading"}
Stopped(s) == aborted[s]
FullContent(s) == FrameDeltas(frames[s], s, term[s], 1)
IsErrorText(c) == Len(c) = 1 /\ c[1] < 0

\* ---------------------------------------------------------------- C2
\* C2: when the user has stopped a turn, then once the turn's stream has
\* settled and its handlers have run, the turn's placeholder (if still in the
\* log) holds exactly the content it had when Stop was pressed, no error text
\* was written and the turn did not end Errored.
C2_StopKeepsPartialContent ==
  \A s \in Streams :
    (Stopped(s) /\ Settled(s) /\ stopSnap[s] # <<>> /\ HasMessage(messages, PlaceholderOf(s))) =>
      /\ ContentOf(messages, PlaceholderOf(s)) = stopSnap[s][1]
      /\ \A i \in 1..Len(outcome[s]) : outcome[s][i] # "Errored"

\* ---------------------------------------------------------------- C3
\* C3: on the step that makes a turn terminal, the log holds an assistant
\* message of that turn (its placeholder, or an error message appended for it)
\* whose content is the full completed content, or the partial content at the
\* moment of cancellation, or an error text.
C3_OneAnswerPerTurn ==
  [][\A s \in Streams :
       (~Settled(s) /\ Settled(s)') =>
         \/ /\ HasMessage(messages', PlaceholderOf(s))
            /\ LET c == ContentOf(messages', PlaceholderOf(s))
               IN \/ c = FullContent(s)
                  \/ Stopped(s) /\ stopSnap[s] # <<>> /\ c = stopSnap[s][1]
                  \/ IsErrorText(c)
         \/ /\ ~HasMessage(messages', PlaceholderOf(s))
            /\ Len(messages') = Len(messages) + 1
            /\ messages'[Len(messages')].role = "assistant"
            /\ IsErrorText(messages'[Len(messages')].content)]_vars

\* ---------------------------------------------------------------- C4
\* C4: finalize-once: a stream delivers at most one terminal outcome among
\* Completed (onComplete), Aborted (the stop) and Failed (onError or the
\* handler's catch), exactly one once it has settled, and the client never
\* calls both onComplete and onError, nor one of them twice.
C4_FinalizeOnce ==
  \A s \in Streams :
    /\ Len(outcome[s]) <= 1
    /\ Settled(s) => Len(outcome[s]) = 1
    /\ Count(events[s], "complete") + Count(events[s], "error") <= 1

\* ---------------------------------------------------------------- C5
\* C5: single-flight: at most one stream of the conversation is in flight (its
\* promise not yet settled) at any time.
C5_SingleFlight == Cardinality({s \in Streams : InFlight(s)}) <= 1

\* ---------------------------------------------------------------- C6
\* C6: once a stream has been cancelled after its first chunk, the client
\* calls no callback of that stream again: no onChunk, no onComplete, no onError.
C6_NoEventAfterCancel ==
  [][\A s \in Streams :
       (Stopped(s) /\ stopSnap[s] # <<>> /\ Len(stopSnap[s][1]) >= 1) =>
         events'[s] = events[s]]_vars

\* ---------------------------------------------------------------- C7
\* C7: while a stream that has not been stopped is delivering, every value
\* written to its placeholder has the previous value as a prefix and equals the
\* concatenation of the deltas the client has delivered for that stream so far.
C7_AppendOnly ==
  [][\A s \in Streams :
       (/\ pc[s] = "reading" /\ ~Stopped(s)
        /\ Count(events'[s], "error") = 0
        /\ HasMessage(messages, PlaceholderOf(s))
        /\ HasMessage(messages', PlaceholderOf(s))) =>
         /\ IsPrefix(ContentOf(messages, PlaceholderOf(s)), ContentOf(messages', PlaceholderOf(s)))
         /\ ContentOf(messages', PlaceholderOf(s)) = ChunkValues(events'[s])]_vars

\* ---------------------------------------------------------------- C8
\* C8: the usage table and the session total change only on the step in which
\* a stream that was not stopped completes, after all its content deltas, and
\* the client's last call on it is its only onComplete; a stopped or failed
\* stream leaves them unchanged.
C8_UsageOnlyOnCompletion ==
  [][(modelUsage' # modelUsage \/ currentSessionTokens' # currentSessionTokens) =>
       \E s \in Streams :
         /\ pc[s] = "reading" /\ Settled(s)'
         /\ ~Stopped(s)
         /\ Count(events'[s], "complete") = 1
         /\ Count(events'[s], "error") = 0
         /\ events'[s][Len(events'[s])].e = "complete"
         /\ ChunkValues(events'[s]) = FullContent(s)]_vars

\* ---------------------------------------------------------------- C11
\* C11: a stream whose request was answered with a non-success status has
\* failed at once: its only callback, ever, is one onError carrying the error
\* built from the response body; no reader was acquired.
C11_NonSuccessFailsDirectly ==
  \A s \in Streams :
    response[s] = "not ok" =>
      /\ Settled(s)
      /\ events[s] = <<ErrorEvent(ErrApi)>>
      /\ Count(events[s], "chunk") = 0 /\ Count(events[s], "complete") = 0
      /\ readers[s] = 0 /\ released[s] = 0

\* a request answered with a non-success status
C11_Witness ==
  \E s \in Streams :
    response[s] = "not ok" /\ Settled(s) /\ events[s] = <<ErrorEvent(ErrApi)>>

TurnStarts(s) == pc[s] = "idle" /\ pc'[s] # "idle"
Blank(t) == \A i \in 1..Len(t) : t[i] = 0
Suffix(a, k) == SubSeq(a, Len(a) - k + 1, Len(a))
AsRequest(msgs) == [i \in 1..Len(msgs) |-> [role |-> msgs[i].role, content |-> msgs[i].content]]
IsSystemWith(m, header) == m.role = "system" /\ m.content # <<>> /\ m.content[1] = header

RECURSIVE DropSystem(_)
\* the messages of a request that are not system messages
DropSystem(out) ==
  IF out = <<>> THEN <<>>
  ELSE (IF Head(out).role = "system" THEN <<>> ELSE <<Head(out)>>) \o DropSystem(Tail(out))

\* the history window the settings ask for
Window == IF "max_messages" \in DOMAIN llmSettings THEN llmSettings.max_messages ELSE 10
MatchedMemories == {id \in selectedMemories : HasMemory(memories, id)}

\* ---------------------------------------------------------------- C13
\* C13: the request of a fresh send is, in this order: the system prompt iff
\* it is not blank, one memories message iff a selected id matches a stored
\* memory, one excerpts message iff retrieval returned a chunk, a tail of the
\* prior history in its order, the new user message.
C13_FixedOrder ==
  [][\A s \in Streams :
       (TurnStarts(s) /\ ~turn'[s].isRerun) =>
         LET out == request'[s]
             nS == IF Blank(systemPrompt) THEN 0 ELSE 1
             nM == IF MatchedMemories # {} THEN 1 ELSE 0
             nD == IF rag'[s].chunks # <<>> THEN 1 ELSE 0
             k == Len(out) - nS - nM - nD - 1
         IN /\ k >= 0 /\ k <= Len(messages)
            /\ (nS = 1 => out[1] = [role |-> "system", content |-> systemPrompt])
            /\ (nM = 1 => IsSystemWith(out[nS + 1], 1000))
            /\ (nD = 1 => IsSystemWith(out[nS + nM + 1], 2000))
            /\ SubSeq(out, nS + nM + nD + 1, Len(out) - 1) = AsRequest(Suffix(messages, k))
            /\ out[Len(out)] = [role |-> "user",
                                content |-> messages'[Len(messages') - 1].content]]_vars

\* a fresh send with all three context messages and a history cut by the window
C13_Witness ==
  \E s \in Streams :
    /\ pc[s] # "idle" /\ ~turn[s].isRerun
    /\ ~Blank(systemPrompt) /\ MatchedMemories # {} /\ rag[s].chunks # <<>>
    /\ Len(request[s]) = 3 + Window + 1
    /\ Window >= 1 /\ Len(messages) > Window + 2

\* ---------------------------------------------------------------- C14
\* C14: the history part of the request of a fresh send is the last
\* min(historyWindow, |history|) messages of the prior history, oldest first,
\* role and content unchanged, for every historyWindow >= 0; 10 by default.
C14_HistoryWindow ==
  [][\A s \in Streams :
       (TurnStarts(s) /\ ~turn'[s].isRerun) =>
         LET h == DropSystem(request'[s])
             m == IF Window < Len(messages) THEN Window ELSE Len(messages)
         IN SubSeq(h, 1, Len(h) - 1) = AsRequest(Suffix(messages, m))]_vars

\* ---------------------------------------------------------------- C15
\* C15: the request of a rerun of user message m ends with m; after the context
\* messages it holds a tail of the log up to m and nothing else: no appended
\* user message, no message that followed m, no placeholder.
C15_RerunEndsWithTurn ==
  [][\A s \in Streams :
       (TurnStarts(s) /\ turn'[s].isRerun) =>
         LET out == request'[s]
             h == DropSystem(out)
             idx == CHOOSE i \in 1..Len(messages') :
                      /\ messages'[i].role = "user"
                      /\ \A j \in (i + 1)..Len(messages') : messages'[j].role # "user"
             m == messages[idx]
         IN /\ Len(h) >= 1 /\ Len(h) <= idx
            /\ out = SubSeq(out, 1, Len(out) - Len(h)) \o h
            /\ h = AsRequest(Suffix(SubSeq(messages, 1, idx), Len(h)))
            /\ out[Len(out)] = [role |-> "user", content |-> m.content]
            /\ \A i \in 1..(Len(out) - 1) : out[i].content # m.content]_vars

\* a rerun of a user message that had messages after it
C15_Witness ==
  \E s \in Streams :
    /\ pc[s] # "idle" /\ turn[s].isRerun /\ turn[s].oldAssistantId # 0
    /\ Len(request[s]) >= 2
    /\ request[s][Len(request[s])].role = "user"

\* ---------------------------------------------------------------- C16
\* C16: retrieval runs only when a document is selected; it returns at most 5
\* chunks, each of a selected source, and the excerpts message of the request
\* names only selected sources.
C16_OnlySelectedSources ==
  [][\A s \in Streams :
       TurnStarts(s) =>
         /\ (rag'[s].ran => selectedDocuments # {})
         /\ Len(rag'[s].chunks) <= 5
         /\ \A i \in 1..Len(rag'[s].chunks) : rag'[s].chunks[i].fileName \in selectedDocuments
         /\ \A i \in 1..Len(request'[s]) :
              IsSystemWith(request'[s][i], 2000) =>
                LET c == request'[s][i].content
                IN /\ Cardinality({p \in 1..Len(c) : c[p] = 2001}) <= 5
                   /\ \A p \in 1..Len(c) : c[p] = 2001 => c[p + 1] \in selectedDocuments]_vars

\* a turn whose selected source has more than 5 chunks while another source is stored
C16_Witness ==
  \E s \in Streams :
    /\ pc[s] # "idle" /\ rag[s].ran /\ Len(rag[s].chunks) = 5
    /\ selectedDocuments = {1}
    /\ \E i \in 1..Len(documents) : documents[i].fileName \notin selectedDocuments
    /\ \E i \in 1..Len(request[s]) : IsSystemWith(request[s][i], 2000)

\* ---------------------------------------------------------------- C17
\* the case of C17: a system prompt, one selected memory, one retrieved chunk,
\* 3 history messages, historyWindow = 2, a fresh send
C17_Case(s) ==
  /\ TurnStarts(s) /\ ~turn'[s].isRerun
  /\ ~Blank(systemPrompt)
  /\ Cardinality(MatchedMemories) = 1
  /\ Len(rag'[s].chunks) = 1
  /\ Len(messages) = 3
  /\ llmSettings = [max_messages |-> 2]

C17_Order(out) ==
  /\ out[1] = [role |-> "system", content |-> systemPrompt]
  /\ IsSystemWith(out[2], 1000)
  /\ IsSystemWith(out[3], 2000)
  /\ SubSeq(out, 4, 5) = AsRequest(SubSeq(messages, 2, 3))
  /\ out[Len(out)].role = "user"

\* C17 as stated: in that case the request has exactly 7 messages, in the fixed
\* order, with only the last 2 history messages.
C17_SevenMessages ==
  [][\A s \in Streams :
       C17_Case(s) => Len(request'[s]) = 7 /\ C17_Order(request'[s])]_vars

\* C17 amended: in that case the request has exactly 6 messages (1 + 1 + 1 + 2
\* + 1), in the fixed order, with only the last 2 history messages.
C17_SixMessages ==
  [][\A s \in Streams :
       C17_Case(s) => Len(request'[s]) = 6 /\ C17_Order(request'[s])]_vars

\* the request of the case of C17 has been assembled
C17_Witness ==
  \E s \in Streams :
    /\ pc[s] # "idle" /\ ~turn[s].isRerun
    /\ ~Blank(systemPrompt) /\ Cardinality(MatchedMemories) = 1 /\ Len(rag[s].chunks) = 1
    /\ Len(messages) = 5 /\ llmSettings = [max_messages |-> 2]
    /\ Len(request[s]) = 6

\* ------------------------------------------------------- useCount, as claimed
UseCount(mems, id) == MemoryOf(mems, id).useCount
Stored(id) == HasMemory(memories, id)

\* ---------------------------------------------------------------- C18
\* C18: the step of a fresh send raises useCount of every stored selected
\* memory by exactly 1 and of no other, before the request is answered or even
\* opened; and whatever becomes of the turns, useCount of every stored memory
\* stays the number of sends issued while it was selected.
C18_IncrementOnSend ==
  [][/\ \A s \in Streams :
          (TurnStarts(s) /\ ~turn'[s].isRerun) =>
            /\ response'[s] = "none" /\ readers'[s] = 0
            /\ \A id \in MemIds :
                 Stored(id) =>
                   /\ HasMemory(memories', id)
                   /\ UseCount(memories', id) =
                        UseCount(memories, id) + (IF id \in selectedMemories THEN 1 ELSE 0)
     /\ \A id \in MemIds :
          HasMemory(memories', id) => UseCount(memories', id) = uses'[id]]_vars

\* two sends with the memory selected: one without effect for want of an API
\* key or stopped, the other settled (completed or errored)
C18_Witness ==
  /\ Stored(1) /\ UseCount(memories, 1) = 2
  /\ \E s, t \in Streams :
       /\ s # t /\ Settled(s) /\ Settled(t)
       /\ (~apiKey \/ Stopped(s))
       /\ outcome[t][Len(outcome[t])] \in {"Completed", "Errored"}

\* ---------------------------------------------------------------- C19
\* C19: the step of a rerun raises useCount of every stored selected memory by
\* exactly 1, as the step of a send does.
C19_IncrementOnRerun ==
  [][\A s \in Streams :
       (TurnStarts(s) /\ turn'[s].isRerun) =>
         \A id \in MemIds :
           (Stored(id) /\ id \in selectedMemories) =>
             /\ HasMemory(memories', id)
             /\ UseCount(memories', id) = UseCount(memories, id) + 1]_vars

\* ---------------------------------------------------------------- C20
\* C20: useCount of a memory that stays stored never decreases, whatever the
\* order of sends, additions, edits, selections and reloads of the panel.
C20_UseCountNeverDecreases ==
  [][\A id \in MemIds :
       (Stored(id) /\ HasMemory(memories', id)) =>
         UseCount(memories', id) >= UseCount(memories, id)]_vars

\* the panel has saved an edit of a memory after a send had raised its useCount
C20_Witness ==
  /\ savedAfterUse
  /\ Stored(1) /\ UseCount(memories, 1) >= 1 /\ MemoryOf(memories, 1).title # 11
  /\ showMemoryPanel /\ panelMemories = memories

\* -------------------------------------------------- failures, as claimed
\* the step in which the request or the stream of turn s fails
TurnFails(s) ==
  /\ pc[s] \in {"opening", "reading"} /\ pc'[s] = "settled"
  /\ outcome'[s] = Append(outcome[s], "Errored")
ErrorMessages(msgs) == {i \in 1..Len(msgs) : IsErrorText(msgs[i].content)}
OthersKept(before, after, id) ==
  /\ Len(after) = Len(before)
  /\ \A i \in 1..Len(before) : before[i].id # id => after[i] = before[i]

\* ---------------------------------------------------------------- C21
\* C21: in the step in which a turn fails, a placeholder that is still in the
\* log gets an error text as its content, every other message staying as it
\* was; if the placeholder is gone, the log grows by exactly one assistant
\* message holding an error text.  Either way the step leaves exactly one more
\* error message than the other messages of the log held.
C21_OneErrorMessage ==
  [][\A s \in Streams :
       TurnFails(s) =>
         LET aid == PlaceholderOf(s)
         IN /\ HasMessage(messages, aid) =>
                 /\ OthersKept(messages, messages', aid)
                 /\ HasMessage(messages', aid)
                 /\ IsErrorText(ContentOf(messages', aid))
            /\ ~HasMessage(messages, aid) =>
                 /\ Len(messages') = Len(messages) + 1
                 /\ SubSeq(messages', 1, Len(messages)) = messages
                 /\ messages'[Len(messages')].role = "assistant"
                 /\ IsErrorText(messages'[Len(messages')].content)
            /\ Cardinality(ErrorMessages(messages')) =
                 Cardinality(ErrorMessages(RemoveMessage(messages, aid))) + 1]_vars

\* one turn has failed with its placeholder in the log, another one after its
\* placeholder had been deleted
C21_Witness ==
  \E s, t \in Streams :
    /\ Settled(s) /\ outcome[s] # <<>> /\ outcome[s][Len(outcome[s])] = "Errored"
    /\ HasMessage(messages, PlaceholderOf(s))
    /\ IsErrorText(ContentOf(messages, PlaceholderOf(s)))
    /\ Settled(t) /\ outcome[t] # <<>> /\ outcome[t][Len(outcome[t])] = "Errored"
    /\ events[t] # <<>>
    /\ ~HasMessage(messages, PlaceholderOf(t))
    /\ messages # <<>>
    /\ IsErrorText(messages[Len(messages)].content)
    /\ \A u \in Streams : messages[Len(messages)].id # PlaceholderOf(u)

\* ---------------------------------------------------------------- C22
\* C22: a send or rerun issued while no key is stored ends in its own step:
\* the turn is Errored, its placeholder holds the missing-key text, no request
\* was assembled or opened, no callback ran, the usage table and the session
\* tokens are as before, and the handler has finished (nothing is loading or
\* streaming).  Such a turn stays without request and callbacks afterwards.
C22_MissingKey ==
  [][/\ \A s \in Streams :
          (TurnStarts(s) /\ ~apiKey) =>
            /\ pc'[s] = "settled"
            /\ outcome'[s] = <<"Errored">>
            /\ HasMessage(messages', PlaceholderOf(s)')
            /\ ContentOf(messages', PlaceholderOf(s)') = ErrorText(ErrKey)
            /\ request'[s] = <<>> /\ response'[s] = "none" /\ readers'[s] = 0
            /\ events'[s] = <<>>
            /\ modelUsage' = modelUsage /\ currentSessionTokens' = currentSessionTokens
            /\ ~isLoading' /\ streamingMessageId' = 0 /\ abortControllerRef' = abortControllerRef
     /\ \A s \in Streams :
          (pc[s] = "settled" /\ response[s] = "none") =>
            /\ pc'[s] = "settled" /\ response'[s] = "none"
            /\ events'[s] = <<>> /\ request'[s] = <<>>]_vars

\* a send and a rerun have both ended on the missing key
C22_Witness ==
  \E s, t \in Streams :
    /\ ~apiKey
    /\ ~turn[s].isRerun /\ pc[s] = "settled" /\ response[s] = "none"
    /\ outcome[s] = <<"Errored">>
    /\ turn[t].isRerun /\ pc[t] = "settled" /\ response[t] = "none"
    /\ outcome[t] = <<"Errored">>
    /\ HasMessage(messages, PlaceholderOf(t))
    /\ ContentOf(messages, PlaceholderOf(t)) = ErrorText(ErrKey)

\* ---------------------------------------------------------------- C23
\* the step in which the retrieval of turn s rejects
RetrievalThrows(s) == pc[s] = "retrieving" /\ rag'[s].ran /\ rag'[s].chunks = <<>>

\* C23: in the step in which the retrieval of a turn rejects, the turn goes on
\* to its request (or to the pricing lookup before it), the request has its
\* messages but none of document excerpts, and the turn gets no outcome.
C23_RetrievalFailureDegrades ==
  [][\A s \in Streams :
       RetrievalThrows(s) =>
         /\ pc'[s] \in {"pricing", "opening"}
         /\ request'[s] # <<>>
         /\ \A i \in 1..Len(request'[s]) : ~IsSystemWith(request'[s][i], 2000)
         /\ outcome'[s] = outcome[s]]_vars

\* ---------------------------------------------------- the usage table, as claimed
CallsFor(modelId) == SelectSeq(libCalls, LAMBDA c : c.modelId = modelId)
RecordsOf(usageData, modelId) == {i \in 1..Len(usageData) : usageData[i].modelId = modelId}
RECURSIVE SumOf(_, _)
\* the sum of the argument count over the calls cs, one that was not supplied adding 0
SumOf(cs, count) ==
  IF cs = <<>> THEN 0 ELSE OrZero(Head(cs)[count]) + SumOf(Tail(cs), count)

\* ---------------------------------------------------------------- C24
\* C24: the table holds no record of a model that was never tracked and exactly
\* one record of a model that was; its requestCount is the number of calls for
\* the model and its three totals are the sums of the counts those calls
\* supplied.  A call leaves the records of the other models as they were.
C24_AdditivePerModel ==
  [][/\ \A m \in Models :
          LET cs == CallsFor(m)'
              rs == RecordsOf(modelUsage', m)
          IN /\ Cardinality(rs) = (IF cs = <<>> THEN 0 ELSE 1)
             /\ \A i \in rs :
                  /\ modelUsage'[i].requestCount = Len(cs)
                  /\ modelUsage'[i].totalTokens = SumOf(cs, "tokens")
                  /\ modelUsage'[i].totalPromptTokens = SumOf(cs, "promptTokens")
                  /\ modelUsage'[i].totalCompletionTokens = SumOf(cs, "completionTokens")
     /\ \A i \in 1..Len(modelUsage) :
          modelUsage[i].modelId # libCalls'[Len(libCalls')].modelId =>
            modelUsage'[i] = modelUsage[i]]_vars

\* a model was tracked twice with the same arguments, after another model was:
\* its requestCount is 2 and its totals are doubled
C24_Witness ==
  /\ Len(libCalls) = 3
  /\ libCalls[1].modelId = "m2" /\ libCalls[2].modelId = "m1"
  /\ libCalls[3] = libCalls[2] /\ libCalls[2].tokens = 3
  /\ Len(modelUsage) = 2
  /\ modelUsage[2].modelId = "m1" /\ modelUsage[2].requestCount = 2
  /\ modelUsage[2].totalTokens = 6 /\ modelUsage[2].totalPromptTokens = 2
  /\ modelUsage[2].totalCompletionTokens = 4

\* ---------------------------------------------------------------- C25
RECURSIVE LastPricing(_)
\* the pricing of the most recent of the calls cs that supplied one
LastPricing(cs) ==
  IF cs = <<>> THEN NoPricing
  ELSE IF cs[Len(cs)].pricing # NoPricing THEN cs[Len(cs)].pricing
  ELSE LastPricing(SubSeq(cs, 1, Len(cs) - 1))

\* C25: the pricing stored on the record of a model is the pricing of the most
\* recent call for the model that supplied one, and none if no call did.
C25_LatestPricingWins ==
  \A m \in Models :
    \A i \in RecordsOf(modelUsage, m) : modelUsage[i].pricing = LastPricing(CallsFor(m))

\* a model was tracked with a pricing, then with another one, then without
C25_Witness ==
  /\ Len(libCalls) = 3
  /\ \A i \in 1..3 : libCalls[i].modelId = "m1"
  /\ libCalls[1].pricing = Pricing(2, 4) /\ libCalls[2].pricing = Pricing(3, 0)
  /\ libCalls[3].pricing = NoPricing
  /\ modelUsage[1].pricing = Pricing(3, 0)

\* ---------------------------------------------------------------- C26
\* what the record u is to contribute to the total cost, in units of 1/2000000
Contribution(u) ==
  IF u.pricing = NoPricing THEN 0
  ELSE IF u.totalPromptTokens > 0 \/ u.totalCompletionTokens > 0
  THEN 2 * u.totalPromptTokens * u.pricing[1].prompt
       + 2 * u.totalCompletionTokens * u.pricing[1].completion
  ELSE u.totalTokens * (u.pricing[1].prompt + u.pricing[1].completion)
RECURSIVE SumContributions(_)
SumContributions(usage) ==
  IF usage = <<>> THEN 0 ELSE Contribution(Head(usage)) + SumContributions(Tail(usage))

\* C26: the total cost is the sum over the records of: 0 for a record without
\* pricing, prompt tokens times prompt rate plus completion tokens times
\* completion rate (per million) for a record with pricing and a breakdown, and
\* total tokens times the mean of the two rates for a record with pricing and no
\* breakdown; the pricing of the selected model has no part in it.
C26_CostFromStoredPricing ==
  libCalls # <<>> => libResult.totalCost = SumContributions(modelUsage)

\* statistics computed while the selected model has a pricing, over a record
\* without pricing and a record with pricing and no breakdown
C26_Witness ==
  /\ libCalls # <<>> /\ libCalls[1].modelPricing = Pricing(7, 7)
  /\ Len(modelUsage) = 2
  /\ modelUsage[1].pricing = NoPricing /\ modelUsage[1].totalPromptTokens = 1
  /\ modelUsage[2].pricing = Pricing(2, 4) /\ modelUsage[2].totalTokens = 5
  /\ modelUsage[2].totalPromptTokens = 0 /\ modelUsage[2].totalCompletionTokens = 0
  /\ libResult.totalCost = 30

\* ---------------------------------------------------------------- C27
\* C27: a retrieval with topK = k over the stored chunks returns min(k, number
\* of chunks) chunks, each one of the stored chunks and none twice, in an order
\* in which similarity never increases and chunks of equal similarity keep
\* their input order.
C27_TopKStable ==
  libCalls # <<>> =>
    LET out == libResult
        k == libCalls[1].topK
    IN /\ Len(out) = (IF k < Len(documents) THEN k ELSE Len(documents))
       /\ \A i \in 1..Len(out) : \E j \in 1..Len(documents) : out[i] = documents[j]
       /\ \A i, j \in 1..Len(out) :
            i < j => /\ out[i].id # out[j].id
                     /\ out[i].sim >= out[j].sim
                     /\ (out[i].sim = out[j].sim => out[i].id < out[j].id)

\* a retrieval that cut the list and returned two chunks of equal similarity
\* that stood after a chunk of smaller similarity in the input
C27_Witness ==
  /\ libCalls # <<>> /\ libCalls[1].topK = 2 /\ Len(documents) = 4
  /\ documents[1].sim = 1 /\ documents[2].sim = 3 /\ documents[3].sim = 2 /\ documents[4].sim = 3
  /\ libResult = <<documents[2], documents[4]>>

\* ---------------------------------------------------------------- C28
\* ceil(a / b) for b > 0
CeilDiv(a, b) == (a + b - 1) \div b
ExpectedChunks(L, size, overlap) ==
  IF L <= overlap THEN 0 ELSE CeilDiv(L - overlap, size - overlap)

\* C28: a call of chunkText on a text of length L > 0 never holds more than
\* ceil((L - overlap) / (size - overlap)) chunks (none when that is not
\* positive), and when it has returned it
\* holds exactly that many and every chunk but possibly the last begins with the
\* last `overlap` characters of the chunk before it.
C28_ChunkCountAndOverlap ==
  LET text == libCalls[1].text
      size == libCalls[1].chunkSize
      overlap == libCalls[1].overlap
      chunks == libResult.chunks
      n == ExpectedChunks(Len(text), size, overlap)
  IN Len(text) > 0 =>
       /\ Len(chunks) <= n
       /\ libResult.returned =>
            /\ Len(chunks) = n
            /\ \A i \in 1..(Len(chunks) - 2) :
                 /\ Len(chunks[i]) >= overlap /\ Len(chunks[i + 1]) >= overlap
                 /\ SubSeq(chunks[i + 1], 1, overlap)
                      = SubSeq(chunks[i], Len(chunks[i]) - overlap + 1, Len(chunks[i]))

\* ---------------------------------------------------------------- C29
\* every component of the returned vector is 0
IsZeroVector(e) == e.magnitude2 = 0 \/ \A i \in 0..(Dimension - 1) : e.values[i] = 0

\* C29: the vector returned for a text is the one a second call returns, and
\* the one returned for every text that differs from it only in letter case; it
\* is the zero vector if the text is empty and only then.
C29_EmbeddingOfTextAlone ==
  libResult # <<>> =>
    LET text == libCalls[1].text
    IN /\ libResult[1] = GenerateEmbedding(text)
       /\ \A t \in EmbedTexts :
            ToLowerCase(t) = ToLowerCase(text) => GenerateEmbedding(t) = libResult[1]
       /\ IsZeroVector(libResult[1]) <=> text = <<>>

\* ---------------------------------------------------------------- C30
ChunksOf(fileName) == SelectSeq(documents, LAMBDA c : c.fileName = fileName)

RemovesChunks == Len(documents') < Len(documents)

\* C31: a step that removes stored chunks removes all the chunks of one listed
\* file and only them, the other chunks staying in their order, and takes that
\* file out of the selection; and at every moment each selected file has a
\* stored chunk.
C31_DeleteRemovesSourceAndSelection ==
  /\ [][RemovesChunks =>
          \E fileName \in UniqueFiles :
            /\ documents' = SelectSeq(documents, LAMBDA c : c.fileName # fileName)
            /\ selectedDocuments' = selectedDocuments \ {fileName}]_vars
  /\ [](selectedDocuments \subseteq UniqueFiles)

\* a selected file was deleted while the other file, selected too, stays stored
\* and selected
C31_Witness ==
  /\ \E i \in 1..Len(libResult.deleted) :
       libResult.deleted[i] = [fileName |-> 1, selected |-> TRUE]
  /\ selectedDocuments = {2}
  /\ UniqueFiles = {2}

\* ---------------------------------------------------------------- C32
\* what the decoder reports when the whole body arrives in one read
InOneRead(s) ==
  LET lines == SplitNL(WireOf(frames[s], s, term[s]))
      st == DecodeLines([chunks |-> <<>>, finalUsage |-> 0, captured |-> <<>>,
                         seenDone |-> FALSE],
                        SubSeq(lines, 1, Len(lines) - 1))
  IN DecodeRest(st, lines[Len(lines)])

\* the value the one onComplete of a settled stream carried
ReportedUsage(s) == SelectEvents(events[s], "complete")[1].usage

\* C32: however the body is cut into reads, the settled stream has made the
\* onChunk calls, in order, and the onComplete call that it makes when the whole
\* body arrives in one read.
C32_SameForEveryPartition ==
  \A s \in Streams :
    (Settled(s) /\ Count(events[s], "complete") = 1) =>
      /\ ChunkValues(events[s]) = InOneRead(s).chunks
      /\ ReportedUsage(s) = CompleteUsage(InOneRead(s).finalUsage)

\* ---------------------------------------------------------------- C33
\* the sentinel line is in the body, followed by its newline
SentinelProcessed(ks, tm) == FirstDone(ks) < Len(ks) \/ (FirstDone(ks) = Len(ks) /\ tm)

\* C33: when the body has a sentinel line, the settled stream has made the
\* onChunk calls of the content frames before it and no other, and its
\* onComplete carries the usage of the last usage frame before the sentinel,
\* {0, 0, 0} when there is none, whatever follows the sentinel.
C33_NothingAfterSentinel ==
  \A s \in Streams :
    (Settled(s) /\ SentinelProcessed(frames[s], term[s])) =>
      /\ ChunkValues(events[s]) = FrameDeltas(frames[s], s, term[s], 1)
      /\ Count(events[s], "complete") = 1
      /\ ReportedUsage(s) = LastUsage(frames[s])

\* ---------------------------------------------------------------- C34
\* the frames before the sentinel whose payload parses and has a usage object
CarriesUsage(kind) == kind \in {"usage", "usageEmptyChoices", "usageNoChoices"}
UsageFrames(ks) == {i \in 1..Len(ks) : CarriesUsage(ks[i]) /\ i < FirstDone(ks)}

\* C34: the usage reported by a settled stream is the usage of the last frame
\* before the sentinel that carries one, whether that frame's choices has an
\* element, is empty or is absent ({0, 0, 0} when no frame carries a usage);
\* stated for bodies in which nothing follows the sentinel.
C34_UsageWhateverTheContentPart ==
  \A s \in Streams :
    (Settled(s) /\ DoneLastOrAbsent(frames[s])) =>
      /\ Count(events[s], "complete") = 1
      /\ ReportedUsage(s) =
           IF UsageFrames(frames[s]) = {} THEN ZeroUsage
           ELSE UsageOf(CHOOSE i \in UsageFrames(frames[s]) :
                          \A j \in UsageFrames(frames[s]) : j <= i)

\* ---------------------------------------------------------------- C35
\* an iteration of the loop of chunkText: one more chunk is pushed
Iterates == Len(libResult'.chunks) = Len(libResult.chunks) + 1

\* C35: a call of chunkText with 0 < overlap < chunkSize returns: no iteration
\* of its loop leaves start at the value it had when the iteration began (the
\* text, chunkSize and overlap being fixed, an iteration that does so is
\* followed by the same iteration for ever).
C35_ChunkTextTerminates ==
  [][Iterates => libResult'.start # libResult.start]_vars

\* ---------------------------------------------------------------- C36
\* Stop was pressed while the placeholder of turn s was the streaming target
StopIssued(s) == stopSnap[s] # <<>>

\* C36: once Stop has been pressed on a turn, before or after its request was
\* opened, the turn's placeholder keeps the content it had at that moment, the
\* turn never completes (so no usage is recorded for it), and when its stream
\* has settled its only outcome is Stopped.
C36_StopTakesEffect ==
  \A s \in Streams :
    StopIssued(s) =>
      /\ HasMessage(messages, PlaceholderOf(s)) =>
           ContentOf(messages, PlaceholderOf(s)) = stopSnap[s][1]
      /\ \A i \in 1..Len(outcome[s]) : outcome[s][i] # "Completed"
      /\ Settled(s) => outcome[s] = <<"Stopped">>

\* ---------------------------------------------------------------- C37
\* the stored list new differs from old at most in the content of placeholders
\* of turns started in conversation c
OwnUpdatesOnly(old, new, c) ==
  /\ Len(new) = Len(old)
  /\ \A i \in 1..Len(old) :
       /\ new[i].id = old[i].id
       /\ new[i].role = old[i].role
       /\ new[i].content # old[i].content =>
            \E s \in Streams : /\ turn[s].conversationId = c
                               /\ turn[s].assistantMessageId = new[i].id

\* C37: a conversation that is not the active one changes in storage only by
\* the updates of its own streams to their placeholders; in particular the
\* list of another conversation is never stored under its id.
C37_StoredListStaysOwn ==
  [][\A c \in ConvIds :
       c # activeConversationId =>
         OwnUpdatesOnly(conversationMessages[c], conversationMessages'[c], c)]_vars

\* ---------------------------------------------------------------- C38
\* the promise of the stopped stream s settles in this step: its onComplete or
\* onError and the finally blocks of executeCompletion and of handleSend /
\* handleRerun run
LateCleanup(s) == Stopped(s) /\ pc[s] # "settled" /\ pc'[s] = "settled"

\* turn t is under way before and after the step
Running(t) ==
  /\ pc[t] \in {"retrieving", "pricing", "opening", "reading"}
  /\ pc'[t] = pc[t]

\* C38: when the promise of a stopped stream settles while a turn started after
\* it is under way, the step leaves isLoading set, leaves the abort handle
\* with the later stream if it holds it, and leaves the content ref set if it
\* points at the later turn's placeholder.
C38_LateCleanupSparesLaterTurn ==
  [][\A s, t \in Streams :
       (s < t /\ LateCleanup(s) /\ Running(t)) =>
         /\ isLoading => isLoading'
         /\ abortControllerRef = t => abortControllerRef' = t
         /\ (streamContentRef.set /\ streamContentRef.messageId = PlaceholderOf(t)) =>
              streamContentRef' = streamContentRef]_vars

\* ---------------------------------------------------------------- C39
\* turn s has started
Started(s) == pc[s] # "idle"

\* no turn is under way
Quiet == \A s \in Streams : pc[s] \in {"idle", "settled"}

\* C39: every turn that has started ends with an outcome (Completed, Stopped
\* or Errored) once its promises settle; every step that gives a turn an
\* outcome leaves isLoading false and streamingMessageId null; when no turn is
\* under way the chat is not loading and has no streaming target; and a
\* loading chat always stops loading.
C39_EveryTurnEnds ==
  /\ \A s \in Streams : Started(s) ~> (Settled(s) /\ outcome[s] # <<>>)
  /\ [][\A s \in Streams :
          outcome'[s] # outcome[s] => (~isLoading' /\ streamingMessageId' = 0)]_vars
  /\ [](Quiet => (~isLoading /\ streamingMessageId = 0))
  /\ isLoading ~> ~isLoading

\* every turn has ended, one of them after Stop was pressed on it, and the chat
\* is idle again
C39_Witness ==
  /\ \A s \in Streams : Settled(s) /\ outcome[s] # <<>>
  /\ \E s \in Streams : StopIssued(s)
  /\ ~isLoading
  /\ streamingMessageId = 0
====
